---- MODULE Spec2Model ----
(***************************************************************************)
(* A model of the OpenFlow reference switch: the flow classifier (chain,   *)
(* double-hash table, flow keys), the packet buffer cache, the action      *)
(* interpreter with its checksum fix-up, FLOW_MOD handling and the timeout *)
(* sweep.  Two builds share the protocol: the user-space switch            *)
(* (src/switch) and the kernel datapath (src/datapath).                    *)
(***************************************************************************)
EXTENDS Integers, Sequences, FiniteSets, TLC

VARIABLES
    \* ---- packet buffer cache (switch/datapath.c, datapath/forward.c) ----
    buffers,        \* slot -> [buffer, cookie, timeout]
    buffer_idx,     \* ring index of the last slot used
    now,            \* time(0) / jiffies, in seconds
    ids,            \* history: ids[p] is what save returned for packet p
    sizes,          \* history: sizes[p] is the length of packet p in bytes
    out,            \* history: packets handed out by retrieve
    twice,          \* history: packets handed out by retrieve more than once
    discarded,      \* history: packets freed by discard_buffer
    last,           \* the last buffer operation and its result
    \* ---- the build ----
    impl,           \* which build runs: "switch" (user space) or "datapath"
    \* ---- action interpreter (execute_actions) ----
    acts,           \* the action list handed to execute_actions
    pc,             \* "start" before the call, "done" after it
    input,          \* the frame as it was handed to execute_actions
    heap,           \* packet data blocks: block number -> frame contents
    sent,           \* do_output calls so far: [port, max_len, blk]
    clones,         \* buffer_clone / skb_clone calls made
    \* ---- checksum fix-up (modify_nh / modify_th) ----
    width,          \* 16: a port is rewritten, 32: an address
    rest,           \* one's-complement sum of the other words the checksum covers
    field,          \* the rewritten field, as 16-bit halves [hi, lo]
    new,            \* the value the action writes, as 16-bit halves
    csum,           \* the stored checksum field
    cspc,           \* "start" before the rewrite, "done" after it
    \* ---- flow tables (chain) ----
    hash2,          \* the two sub-tables of the double-hash table
    linear,         \* the linear table, highest priority first
    jiffies,        \* the clock the flow timers read, in seconds
    last_timeout,   \* dp->last_timeout: when the user-space sweep last ran
    send_flow_exp,  \* SEND_FLOW_EXP is set in the switch configuration
    n_alloc,        \* flows allocated so far (the next flow is n_alloc + 1)
    expired,        \* FLOW_EXPIRED messages sent, oldest first
    chlast,         \* the last chain operation and its result
    \* ---- the path to the controller (dp_output_control) ----
    miss_send_len,  \* bytes of an unmatched frame sent to the controller
    packet_ins,     \* PACKET_IN messages sent, oldest first
    \* ---- control-message dispatch (fwd_control_input) ----
    ctl,            \* the message handed to fwd_control_input and its outcome
    \* ---- the kernel's workers on the buffer cache (datapath/forward.c) ----
    buffer_lock,    \* the worker that holds buffer_lock, or "none"
    workers,        \* worker -> its position and locals in the cache function
    frees,          \* history: kfree_skb calls, [skb, locked]
    unlocked,       \* history: the cache was touched without the lock held
    \* ---- the ports of the user-space datapath (flood) ----
    port_list,      \* dp->port_list: [port_no, no_flood], in list order
    rx_port,        \* the port the flooded frame came in on
    \* ---- the secure channel (secchan.c) ----
    reliable,       \* FALSE when secchan runs with --unreliable
    halves,         \* halves[i].vconn: "null" or "open"
    rc,             \* the running call of reconnect: position, half, backoff
    \* ---- VLAN tag rewriting (modify_vlan, modify_vlan_tci, vlan_pull_tag) ----
    veth,           \* the frame's 802.1Q tags as on the wire, outermost first
    payload_ok,     \* FALSE once bytes after the EtherType were overwritten
    dl_vlan,        \* key->dl_vlan, as the wire value it stands for
    vlan_todo,      \* the actions of the list still to be executed
    host_le,        \* TRUE when the host is little-endian
    \* ---- the main loop of the user-space switch (dp_run, remote_run) ----
    rxq,            \* remote -> the messages its connection holds, oldest first
    netdev,         \* port -> the number of frames waiting to be received
    loop,           \* where dp_run is: pc, pass, port or remote, i, buffer
    events,         \* history: what the passes received and dispatched
    arrived,        \* history: remote -> number of messages that arrived
    \* ---- one bucket of the kernel's hash table and its users ----
    bucket_flow,    \* *bucket: the flow the bucket points to, or "NULL"
    n_flows,        \* th->n_flows
    th_lock,        \* the thread that holds th->lock, or "none"
    flow_deleted,   \* the flows whose deleted flag flow_del has set
    thr,            \* thread -> [pc, flow, count, retval], its locals
    rcu_readers,    \* the threads inside an RCU read-side critical section
    rcu_cbs,        \* call_rcu callbacks not yet run: [flow, waiting]
    reclaimed,      \* the flows flow_free has freed
    scheduled,      \* history: flow -> number of flow_deferred_free calls
    uaf,            \* history: a freed flow was read
    \* ---- secchan's relay (secchan/secchan.c main) ----
    rxbuf,          \* half -> the message received and not yet sent, or NoMsg
    revents,        \* half -> the poll events of its connection
    relay,          \* [pc, i]: main's position in its loop
    relayed         \* history: messages received, accepted, discarded

bufVars ==
    <<buffers, buffer_idx, now, ids, sizes, out, twice, discarded, last>>
actVars == <<acts, pc, input, heap, sent, clones>>
csVars == <<width, rest, field, new, csum, cspc>>
chVars == <<hash2, linear, jiffies, last_timeout, send_flow_exp, n_alloc,
            expired, chlast>>
inVars == <<miss_send_len, packet_ins, ctl>>
lockVars == <<buffer_lock, workers, frees, unlocked>>
portVars == <<port_list, rx_port>>
secVars == <<reliable, halves, rc>>
vlanVars == <<veth, payload_ok, dl_vlan, vlan_todo, host_le>>
loopVars == <<rxq, netdev, loop, events, arrived>>
rcuVars ==
    <<bucket_flow, n_flows, th_lock, flow_deleted, thr, rcu_readers, rcu_cbs,
      reclaimed, scheduled, uaf>>
relayVars == <<rxbuf, revents, relay, relayed>>
NotBuf == <<impl, actVars, csVars, chVars, inVars, lockVars, portVars, secVars, vlanVars, loopVars, rcuVars, relayVars>>
NotAct == <<bufVars, csVars, chVars, inVars, lockVars, portVars, secVars, vlanVars, loopVars, rcuVars, relayVars>>
NotCs == <<impl, bufVars, actVars, chVars, inVars, lockVars, portVars, secVars, vlanVars, loopVars, rcuVars, relayVars>>
NotCh == <<bufVars, actVars, csVars, inVars, lockVars, portVars, secVars, vlanVars, loopVars, rcuVars, relayVars>>

-----------------------------------------------------------------------------
(* Bounds of the model *)

MaxSaves == 4       \* packets offered to save_buffer in one run
MaxTime == 1        \* seconds the clock advances
MaxActs == 3        \* longest action list executed
MaxFlows == 3       \* flows allocated by FLOW_MOD ADD
MaxJiffies == 2     \* seconds the flow clock advances
MaxRuns == 1        \* packets run through a FLOW_MOD that names a buffer

(* The widths of the two halves of a buffer id, scaled down from 8 and 24  *)
(* so that the per-slot cookie wraps within a run.                         *)
PKT_BUFFER_BITS == 0
PKT_COOKIE_BITS == 2

-----------------------------------------------------------------------------
(* Program constants *)

OVERWRITE_SECS == 1
NULL == 0

RECURSIVE Pow2(_)
Pow2(n) == IF n = 0 THEN 1 ELSE 2 * Pow2(n - 1)

N_PKT_BUFFERS == Pow2(PKT_BUFFER_BITS)
PKT_BUFFER_MASK == N_PKT_BUFFERS - 1

\* (uint32_t) -1, the all-ones id, at the model's id width
\* PKT_BUFFER_BITS + PKT_COOKIE_BITS.
UINT32_MAX == N_PKT_BUFFERS * Pow2(PKT_COOKIE_BITS) - 1

Range(s) == {s[i] : i \in DOMAIN s}

-----------------------------------------------------------------------------
(* Packet buffering *)

Slots == 0 .. PKT_BUFFER_MASK
\* every id of PKT_BUFFER_BITS + PKT_COOKIE_BITS bits, the all-ones one included
BufferIds == 0 .. UINT32_MAX

\* The buffer cache as the program starts.
BuffersAtStart ==
    /\ buffers = [s \in Slots |-> [buffer |-> NULL, cookie |-> 0, timeout |-> 0]]
    /\ buffer_idx = 0
    /\ now = 0
    /\ ids = <<>>
    /\ sizes = <<>>
    /\ out = {}
    /\ twice = {}
    /\ discarded = {}
    /\ last = [op |-> "none", id |-> 0, ret |-> NULL, freed |-> NULL]
    /\ buffer_lock = "none"
    /\ workers = [w \in {"rx", "ctl"} |->
                     [pc |-> "idle", op |-> "none", id |-> 0, skb |-> NULL,
                      old_skb |-> NULL, i |-> 0]]
    /\ frees = <<>>
    /\ unlocked = FALSE

\* ++p->cookie >= (1u << PKT_COOKIE_BITS) - 1 ? 0 : p->cookie
NextCookieStuck(c) == c
NextCookieAllOnes(c) == (c + 1) % Pow2(PKT_COOKIE_BITS)
NextCookie(c) == IF c + 1 >= Pow2(PKT_COOKIE_BITS) - 1 THEN 0 ELSE c + 1

\* The value retrieve_buffer leaves in the slot it hands out.
KeepsSlot(p) == p
ClearedSlot(p) == [p EXCEPT !.buffer = NULL]

\* The frame a buffer holds when nothing else is said about it.
BufferedFrame == [dl_src |-> 0, dl_dst |-> 0, len |-> 60]

\* if (p->buffer) { if (time(0) < p->timeout) return -1; ... }: the occupant
\* of slot p is too young to be overwritten.
OverwritesAtOnce(p) == FALSE
LessThanOverwriteSecsOld(p) == p.buffer # NULL /\ now < p.timeout

\* save_buffer on the slots bufs: the id it returns, the slots it leaves and
\* the occupant it frees (buffer_delete, kfree_skb of old_skb).
Saved(bufs) ==
    LET idx == (buffer_idx + 1) % N_PKT_BUFFERS
        p   == bufs[idx]
        c   == NextCookie(p.cookie)
    IN  IF LessThanOverwriteSecsOld(p)
        THEN [id |-> UINT32_MAX, buffers |-> bufs, freed |-> NULL]
        ELSE [id |-> idx + c * N_PKT_BUFFERS, freed |-> p.buffer,
              buffers |-> [bufs EXCEPT ![idx] =
                              [buffer |-> Len(ids) + 1, cookie |-> c,
                               timeout |-> now + OVERWRITE_SECS]]]

\* uint32_t save_buffer(struct buffer *): the packet is the next fresh one,
\* len bytes long.
SaveBuffer(len) ==
    LET r == Saved(buffers)
    IN  /\ buffer_idx' = (buffer_idx + 1) % N_PKT_BUFFERS
        /\ sizes' = Append(sizes, len)
        /\ buffers' = r.buffers
        /\ ids' = Append(ids, r.id)
        /\ last' = [op |-> "save", id |-> r.id, ret |-> Len(ids) + 1,
                    freed |-> r.freed]
        /\ UNCHANGED <<now, out, twice, discarded>>

save_buffer ==
    /\ Len(ids) < MaxSaves
    /\ SaveBuffer(BufferedFrame.len)
    /\ UNCHANGED NotBuf

\* What retrieve_buffer(id) returns: the slot's packet when the cookie fits.
BufferOf(id) ==
    LET p == buffers[id % N_PKT_BUFFERS]
    IN  IF p.cookie = id \div N_PKT_BUFFERS THEN p.buffer ELSE NULL

\* static struct buffer *retrieve_buffer(uint32_t id)
RetrieveBuffer(id) ==
    LET idx == id % N_PKT_BUFFERS
        p   == buffers[idx]
    IN  /\ IF p.cookie = id \div N_PKT_BUFFERS
           THEN /\ buffers' = [buffers EXCEPT ![idx] = ClearedSlot(p)]
                /\ last' = [op |-> "retrieve", id |-> id, ret |-> p.buffer,
                            freed |-> NULL]
                /\ out' = out \cup ({p.buffer} \ {NULL})
                /\ twice' = twice \cup ({p.buffer} \cap out)
           ELSE /\ last' = [op |-> "retrieve", id |-> id, ret |-> NULL,
                            freed |-> NULL]
                /\ UNCHANGED <<buffers, out, twice>>
        /\ UNCHANGED <<buffer_idx, now, ids, sizes, discarded>>

retrieve_buffer == \E id \in BufferIds : RetrieveBuffer(id) /\ UNCHANGED NotBuf

\* retrieve_buffer(id) followed by save_buffer of a packet of len bytes, as
\* one step of a handler that does both.
RetrieveAndSave(id, len) ==
    LET idx == id % N_PKT_BUFFERS
        p   == buffers[idx]
        hit == p.cookie = id \div N_PKT_BUFFERS
        r   == Saved(IF hit THEN [buffers EXCEPT ![idx] = ClearedSlot(p)]
                     ELSE buffers)
    IN  /\ buffer_idx' = (buffer_idx + 1) % N_PKT_BUFFERS
        /\ sizes' = Append(sizes, len)
        /\ buffers' = r.buffers
        /\ ids' = Append(ids, r.id)
        /\ last' = [op |-> "save", id |-> r.id, ret |-> Len(ids) + 1,
                    freed |-> r.freed]
        /\ out' = IF hit THEN out \cup ({p.buffer} \ {NULL}) ELSE out
        /\ twice' = IF hit THEN twice \cup ({p.buffer} \cap out) ELSE twice
        /\ UNCHANGED <<now, discarded>>

\* static void discard_buffer(uint32_t id)
DiscardBuffer(id) ==
    LET idx == id % N_PKT_BUFFERS
        p   == buffers[idx]
    IN  /\ IF p.cookie = id \div N_PKT_BUFFERS
           THEN /\ buffers' = [buffers EXCEPT ![idx].buffer = NULL]
                /\ discarded' = discarded \cup ({p.buffer} \ {NULL})
           ELSE UNCHANGED <<buffers, discarded>>
        /\ UNCHANGED <<buffer_idx, now, ids, sizes, out, twice, last>>

discard_buffer == \E id \in BufferIds : DiscardBuffer(id) /\ UNCHANGED NotBuf

\* One second passes.
Tick ==
    /\ now < MaxTime
    /\ now' = now + 1
    /\ UNCHANGED <<buffers, buffer_idx, ids, sizes, out, twice, discarded,
                   last>>
    /\ UNCHANGED NotBuf

-----------------------------------------------------------------------------
(* The kernel's buffer cache under its lock: the receive worker saves while *)
(* the control worker retrieves and discards, one statement at a time.      *)

Workers == {"rx", "ctl"}

\* spin_lock_irqsave(&buffer_lock, flags) by worker w.
no_lock(w) == buffer_lock' = buffer_lock
spin_lock_irqsave(w) == buffer_lock = "none" /\ buffer_lock' = w

\* spin_unlock_irqrestore(&buffer_lock, flags)
spin_unlock_irqrestore == buffer_lock' = "none"

\* A statement of worker w that reads or writes buffer_idx or a slot.
Touches(w) == unlocked' = (unlocked \/ buffer_lock # w)

\* kfree_skb(skb) by worker w; kfree_skb(NULL) does nothing.
kfree_skb(w, skb) ==
    frees' = IF skb = NULL THEN frees
             ELSE Append(frees, [skb |-> skb, locked |-> buffer_lock = w])

\* Worker w moves to position pos with its locals changed to loc.
Goes(w, loc) == workers' = [workers EXCEPT ![w] = loc]
At(w, op, pos) == workers[w].op = op /\ workers[w].pc = pos

\* fwd_save_skb, statement by statement.
fwd_save_skb_lock ==
    /\ workers["rx"].pc = "idle"
    /\ Len(ids) < MaxSaves
    /\ spin_lock_irqsave("rx")
    /\ Goes("rx", [pc |-> "index", op |-> "save", id |-> 0,
                   skb |-> Len(ids) + 1, old_skb |-> NULL, i |-> 0])
    /\ UNCHANGED <<bufVars, frees, unlocked>>
    /\ UNCHANGED <<impl, actVars, csVars, chVars, inVars, portVars, secVars, vlanVars, loopVars, rcuVars, relayVars>>

fwd_save_skb_index ==
    /\ At("rx", "save", "index")
    /\ buffer_idx' = (buffer_idx + 1) % N_PKT_BUFFERS
    /\ Touches("rx")
    /\ Goes("rx", [workers["rx"] EXCEPT !.pc = "check"])
    /\ UNCHANGED <<buffers, now, ids, sizes, out, twice, discarded, last,
                   buffer_lock, frees>>
    /\ UNCHANGED <<impl, actVars, csVars, chVars, inVars, portVars, secVars, vlanVars, loopVars, rcuVars, relayVars>>

fwd_save_skb_check ==
    /\ At("rx", "save", "check")
    /\ LET p == buffers[buffer_idx]
       IN  IF LessThanOverwriteSecsOld(p)
           THEN /\ spin_unlock_irqrestore
                /\ Goes("rx", [workers["rx"] EXCEPT !.pc = "return",
                                                     !.id = UINT32_MAX])
           ELSE /\ UNCHANGED buffer_lock
                /\ Goes("rx", [workers["rx"] EXCEPT !.pc = "install",
                                                     !.old_skb = p.buffer])
    /\ Touches("rx")
    /\ UNCHANGED <<bufVars, frees>>
    /\ UNCHANGED <<impl, actVars, csVars, chVars, inVars, portVars, secVars, vlanVars, loopVars, rcuVars, relayVars>>

fwd_save_skb_install ==
    /\ At("rx", "save", "install")
    /\ LET c == NextCookie(buffers[buffer_idx].cookie)
       IN  /\ buffers' = [buffers EXCEPT ![buffer_idx] =
                            [buffer |-> workers["rx"].skb, cookie |-> c,
                             timeout |-> now + OVERWRITE_SECS]]
           /\ Goes("rx", [workers["rx"] EXCEPT
                            !.pc = "unlock",
                            !.id = buffer_idx + c * N_PKT_BUFFERS])
    /\ Touches("rx")
    /\ UNCHANGED <<buffer_idx, now, ids, sizes, out, twice, discarded, last,
                   buffer_lock, frees>>
    /\ UNCHANGED <<impl, actVars, csVars, chVars, inVars, portVars, secVars, vlanVars, loopVars, rcuVars, relayVars>>

fwd_save_skb_unlock ==
    /\ At("rx", "save", "unlock")
    /\ spin_unlock_irqrestore
    /\ Goes("rx", [workers["rx"] EXCEPT !.pc = "return"])
    /\ UNCHANGED <<bufVars, frees, unlocked>>
    /\ UNCHANGED <<impl, actVars, csVars, chVars, inVars, portVars, secVars, vlanVars, loopVars, rcuVars, relayVars>>

fwd_save_skb_return ==
    /\ At("rx", "save", "return")
    /\ kfree_skb("rx", workers["rx"].old_skb)
    /\ ids' = Append(ids, workers["rx"].id)
    /\ sizes' = Append(sizes, BufferedFrame.len)
    /\ Goes("rx", [workers["rx"] EXCEPT !.pc = "idle", !.op = "none",
                                         !.old_skb = NULL, !.skb = NULL])
    /\ UNCHANGED <<buffers, buffer_idx, now, out, twice, discarded, last,
                   buffer_lock, unlocked>>
    /\ UNCHANGED <<impl, actVars, csVars, chVars, inVars, portVars, secVars, vlanVars, loopVars, rcuVars, relayVars>>

\* The control worker enters retrieve_skb(id), discard_skb(id) or one round
\* of the loop of fwd_discard_all and takes the lock.
CtlLock(op, id, i) ==
    /\ spin_lock_irqsave("ctl")
    /\ Goes("ctl", [pc |-> "read", op |-> op, id |-> id, skb |-> NULL,
                    old_skb |-> NULL, i |-> i])
    /\ UNCHANGED <<bufVars, frees, unlocked>>
    /\ UNCHANGED <<impl, actVars, csVars, chVars, inVars, portVars, secVars, vlanVars, loopVars, rcuVars, relayVars>>

\* if (p->cookie == id >> PKT_BUFFER_BITS) skb = p->skb;
CtlRead(op) ==
    /\ At("ctl", op, "read")
    /\ LET id == workers["ctl"].id
           p  == buffers[id % N_PKT_BUFFERS]
       IN  IF p.cookie = id \div N_PKT_BUFFERS
           THEN Goes("ctl", [workers["ctl"] EXCEPT !.pc = "clear",
                                                    !.skb = p.buffer])
           ELSE Goes("ctl", [workers["ctl"] EXCEPT !.pc = "unlock"])
    /\ Touches("ctl")
    /\ UNCHANGED <<bufVars, buffer_lock, frees>>
    /\ UNCHANGED <<impl, actVars, csVars, chVars, inVars, portVars, secVars, vlanVars, loopVars, rcuVars, relayVars>>

\* p->skb = NULL;
CtlClear(op, slot) ==
    /\ At("ctl", op, "clear")
    /\ buffers' = [buffers EXCEPT ![slot].buffer = NULL]
    /\ Touches("ctl")
    /\ Goes("ctl", [workers["ctl"] EXCEPT !.pc = "unlock"])
    /\ UNCHANGED <<buffer_idx, now, ids, sizes, out, twice, discarded, last,
                   buffer_lock, frees>>
    /\ UNCHANGED <<impl, actVars, csVars, chVars, inVars, portVars, secVars, vlanVars, loopVars, rcuVars, relayVars>>

CtlUnlock(op) ==
    /\ At("ctl", op, "unlock")
    /\ spin_unlock_irqrestore
    /\ Goes("ctl", [workers["ctl"] EXCEPT !.pc = "return"])
    /\ UNCHANGED <<bufVars, frees, unlocked>>
    /\ UNCHANGED <<impl, actVars, csVars, chVars, inVars, portVars, secVars, vlanVars, loopVars, rcuVars, relayVars>>

CtlIdle == [workers["ctl"] EXCEPT !.pc = "idle", !.op = "none", !.skb = NULL]

\* retrieve_skb(id)
retrieve_skb_lock ==
    \E id \in BufferIds :
        workers["ctl"].pc = "idle" /\ CtlLock("retrieve", id, 0)

retrieve_skb_read == CtlRead("retrieve")

retrieve_skb_clear ==
    CtlClear("retrieve", workers["ctl"].id % N_PKT_BUFFERS)

retrieve_skb_unlock == CtlUnlock("retrieve")

retrieve_skb_return ==
    /\ At("ctl", "retrieve", "return")
    /\ LET skb == workers["ctl"].skb
       IN  /\ out' = out \cup ({skb} \ {NULL})
           /\ twice' = twice \cup ({skb} \cap out)
    /\ Goes("ctl", CtlIdle)
    /\ UNCHANGED <<buffers, buffer_idx, now, ids, sizes, discarded, last,
                   buffer_lock, frees, unlocked>>
    /\ UNCHANGED <<impl, actVars, csVars, chVars, inVars, portVars, secVars, vlanVars, loopVars, rcuVars, relayVars>>

\* discard_skb(id)
discard_skb_lock ==
    \E id \in BufferIds :
        workers["ctl"].pc = "idle" /\ CtlLock("discard", id, 0)

discard_skb_read == CtlRead("discard")

discard_skb_clear == CtlClear("discard", workers["ctl"].id % N_PKT_BUFFERS)

discard_skb_unlock == CtlUnlock("discard")

discard_skb_return ==
    /\ At("ctl", "discard", "return")
    /\ kfree_skb("ctl", workers["ctl"].skb)
    /\ Goes("ctl", CtlIdle)
    /\ UNCHANGED <<bufVars, buffer_lock, unlocked>>
    /\ UNCHANGED <<impl, actVars, csVars, chVars, inVars, portVars, secVars, vlanVars, loopVars, rcuVars, relayVars>>

\* fwd_discard_all(): for every slot i, take the lock, empty the slot, drop
\* the lock, free what the slot held.
fwd_discard_all_lock ==
    /\ workers["ctl"].pc \in {"idle", "next"}
    /\ CtlLock("discard_all", 0, workers["ctl"].i)

fwd_discard_all_read ==
    /\ At("ctl", "discard_all", "read")
    /\ Goes("ctl", [workers["ctl"] EXCEPT
                      !.pc = "clear", !.skb = buffers[workers["ctl"].i].buffer])
    /\ Touches("ctl")
    /\ UNCHANGED <<bufVars, buffer_lock, frees>>
    /\ UNCHANGED <<impl, actVars, csVars, chVars, inVars, portVars, secVars, vlanVars, loopVars, rcuVars, relayVars>>

fwd_discard_all_clear == CtlClear("discard_all", workers["ctl"].i)

fwd_discard_all_unlock == CtlUnlock("discard_all")

fwd_discard_all_free ==
    /\ At("ctl", "discard_all", "return")
    /\ kfree_skb("ctl", workers["ctl"].skb)
    /\ IF workers["ctl"].i + 1 < N_PKT_BUFFERS
       THEN Goes("ctl", [workers["ctl"] EXCEPT !.pc = "next", !.i = @ + 1,
                                                !.skb = NULL])
       ELSE Goes("ctl", [CtlIdle EXCEPT !.i = 0])
    /\ UNCHANGED <<bufVars, buffer_lock, unlocked>>
    /\ UNCHANGED <<impl, actVars, csVars, chVars, inVars, portVars, secVars, vlanVars, loopVars, rcuVars, relayVars>>

-----------------------------------------------------------------------------
(* The action interpreter *)

OFPAT_OUTPUT == "OUTPUT"
OFPAT_SET_DL_SRC == "SET_DL_SRC"
OFPAT_SET_DL_DST == "SET_DL_DST"

Impls == {"switch", "datapath"}

\* make_writable needs this many bytes in the linear part of the frame.
MakeWritablePull == 40

\* The frames handed to execute_actions (len in bytes), and the values the
\* setters write.
InputFrames == [dl_src : {0}, dl_dst : {0}, len : {30, 60}]
ActionSet ==
    [type : {OFPAT_OUTPUT}, port : {1, 2}, max_len : {0}, dl_addr : {0}]
    \cup [type : {OFPAT_SET_DL_SRC}, port : {0}, max_len : {0}, dl_addr : {1, 2}]
    \cup [type : {OFPAT_SET_DL_DST}, port : {0}, max_len : {0}, dl_addr : {1}]

ActionLists == UNION {[1 .. n -> ActionSet] : n \in 1 .. MaxActs}

\* The action lists a message can carry: neither add_flow nor recv_packet_out
\* looks at the type of an action before the list is executed.
UnknownAction == [type |-> "UNKNOWN", port |-> 0, max_len |-> 0, dl_addr |-> 0]
KnownTypes == {OFPAT_OUTPUT, OFPAT_SET_DL_SRC, OFPAT_SET_DL_DST}
MessageActionLists ==
    UNION {[1 .. n -> ActionSet \cup {UnknownAction}] : n \in 1 .. MaxActs}

ActionsIdle ==
    /\ acts = <<>>
    /\ pc = "idle"
    /\ input = [dl_src |-> 0, dl_dst |-> 0, len |-> 60]
    /\ heap = <<>>
    /\ sent = <<>>
    /\ clones = 0

\* execute_setter / the switch cases of execute_actions: the frame after
\* action a has rewritten it.
execute_setter(frame, a) ==
    CASE a.type = OFPAT_SET_DL_SRC -> [frame EXCEPT !.dl_src = a.dl_addr]
      [] a.type = OFPAT_SET_DL_DST -> [frame EXCEPT !.dl_dst = a.dl_addr]
      [] OTHER -> frame

\* do_output: hand block blk to the output path for port.
do_output(st, blk, port) ==
    [st EXCEPT !.sent = Append(@, [port |-> port, max_len |-> st.max_len,
                                   blk |-> blk])]

\* buffer_clone: an independent copy of the frame in a block of its own.
buffer_clone(st) ==
    [st |-> [st EXCEPT !.heap = Append(@, st.heap[st.cur]), !.clones = @ + 1],
     blk |-> Len(st.heap) + 1]

\* skb_clone: a new sk_buff head on the same data block.
skb_clone(st) == [st |-> [st EXCEPT !.clones = @ + 1], blk |-> st.cur]

\* The clone each build's execute_actions makes for a pending output.
CloneOf(im, st) == IF im = "switch" THEN buffer_clone(st) ELSE skb_clone(st)

\* skb_shared || skb_cloned: a frame handed to do_output still points at the
\* block.
skb_cloned(st) == \E i \in DOMAIN st.sent : st.sent[i].blk = st.cur

\* make_writable: copy the data when the block is not exclusively ours,
\* otherwise pskb_may_pull(skb, 40); a failure stops the interpreter.
make_writable(st) ==
    IF skb_cloned(st)
    THEN [st EXCEPT !.heap = Append(@, st.heap[st.cur]),
                    !.cur = Len(st.heap) + 1]
    ELSE [st EXCEPT !.stop = st.heap[st.cur].len < MakeWritablePull]

\* The send of the pending port that opens every loop iteration.
SendPending(im, st) ==
    IF st.prev_port # -1
    THEN LET c == CloneOf(im, st)
         IN  [do_output(c.st, c.blk, st.prev_port) EXCEPT !.prev_port = -1]
    ELSE st

\* One iteration of the for loop of execute_actions.
\* NOT_REACHED() in the default case of the user-space switch statement ends
\* the process; the kernel's execute_setter logs an unknown type and goes on.
NOT_REACHED(st) == [st EXCEPT !.aborted = TRUE]

ActionStep(im, st, a) ==
    LET s1 == SendPending(im, st)
    IN  IF im = "switch" /\ a.type \notin KnownTypes THEN NOT_REACHED(s1)
        ELSE IF a.type = OFPAT_OUTPUT
        THEN [s1 EXCEPT !.prev_port = a.port, !.max_len = a.max_len]
        ELSE LET s2 == IF im = "datapath" THEN make_writable(s1) ELSE s1
             IN  IF s2.stop THEN s2
                 ELSE [s2 EXCEPT !.heap[s2.cur] = execute_setter(@, a)]

\* After the loop: send the original to the pending port, or free it.
FinalOutput(im, st) ==
    IF st.prev_port # -1
    THEN [do_output(st, st.cur, st.prev_port) EXCEPT !.prev_port = -1]
    ELSE st

RECURSIVE RunActions(_, _, _, _)
RunActions(im, st, as, i) ==
    IF st.aborted THEN st
    ELSE IF i > Len(as) \/ st.stop THEN FinalOutput(im, st)
    ELSE RunActions(im, ActionStep(im, st, as[i]), as, i + 1)

\* A datapath of either build is about to run an action list on a frame.
ActionsAtStart ==
    /\ impl \in Impls
    /\ acts \in ActionLists
    /\ pc = "start"
    /\ input \in InputFrames
    /\ heap = <<input>>
    /\ sent = <<>>
    /\ clones = 0

\* execute_actions(dp, buffer, in_port, key, actions, n_actions)
execute_actions ==
    /\ pc = "start"
    /\ LET st0 == [heap |-> heap, cur |-> 1, prev_port |-> -1, max_len |-> 0,
                   sent |-> sent, clones |-> clones, stop |-> FALSE,
                   aborted |-> FALSE]
           st  == RunActions(impl, st0, acts, 1)
       IN  /\ heap' = st.heap
           /\ sent' = st.sent
           /\ clones' = st.clones
           /\ pc' = IF st.aborted THEN "aborted" ELSE "done"
    /\ UNCHANGED <<impl, acts, input>>
    /\ UNCHANGED NotAct

\* The frame of packet pkt of the buffer cache.
FrameOf(pkt) == [dl_src |-> 0, dl_dst |-> 0, len |-> sizes[pkt]]

\* execute_actions as the message handlers call it, on a frame of their own.
ExecuteOn(frame, actions) ==
    LET st0 == [heap |-> Append(heap, frame), cur |-> Len(heap) + 1,
                prev_port |-> -1, max_len |-> 0, sent |-> sent,
                clones |-> clones, stop |-> FALSE, aborted |-> FALSE]
        st  == RunActions(impl, st0, actions, 1)
    IN  /\ heap' = st.heap
        /\ sent' = st.sent
        /\ clones' = st.clones
        /\ pc' = IF st.aborted THEN "aborted" ELSE pc
        /\ UNCHANGED <<acts, input>>

-----------------------------------------------------------------------------
(* The incremental checksum fix-up *)

\* uint16_t arithmetic.
UINT16_MAX == 65535
U16(x) == x % (UINT16_MAX + 1)
Not16(x) == UINT16_MAX - x

\* The Internet checksum computed from scratch (RFC 1071): the complement of
\* the one's-complement sum, every carry folded back in.
RECURSIVE Fold(_)
Fold(x) == IF x > UINT16_MAX THEN Fold(U16(x) + x \div (UINT16_MAX + 1)) ELSE x
InternetChecksum(r, f) == Not16(Fold(r + f.hi + f.lo))

\* recalc_csum16(old_csum, old_u16, new_u16)
recalc_csum16(old_csum, old_u16, new_u16) ==
    LET hc_complement == Not16(old_csum)
        m_complement == Not16(old_u16)
        m_prime == new_u16
        sum == hc_complement + m_complement + m_prime
        hc_prime_complement == U16(sum + sum \div (UINT16_MAX + 1))
    IN  Not16(hc_prime_complement)

\* recalc_csum32(old_csum, old_u32, new_u32), the 32-bit values as halves.
recalc_csum32(old_csum, old_u32, new_u32) ==
    recalc_csum16(recalc_csum16(old_csum, old_u32.lo, new_u32.lo),
                  old_u32.hi, new_u32.hi)

\* Field values and sums of the remaining words at the edges of uint16_t.
Words == {0, 1, UINT16_MAX - 1, UINT16_MAX}
RestSums == {1, 2, UINT16_MAX - 1, UINT16_MAX}
Halves(w) == IF w = 16 THEN [hi : {0}, lo : Words] ELSE [hi : Words, lo : Words]

CsumIdle ==
    /\ width = 16
    /\ rest = 1
    /\ field = [hi |-> 0, lo |-> 0]
    /\ new = [hi |-> 0, lo |-> 0]
    /\ csum = UINT16_MAX - 1
    /\ cspc = "idle"

\* A TCP/IP packet with a correct checksum is about to have a port (16 bits)
\* or an address (32 bits) rewritten.
CsumAtStart ==
    /\ width \in {16, 32}
    /\ rest \in RestSums
    /\ field \in Halves(width)
    /\ new \in Halves(width)
    /\ csum = InternetChecksum(rest, field)
    /\ cspc = "start"

\* modify_th, TCP: th->tcp_csum = recalc_csum16(...); *field = new
modify_th ==
    /\ cspc = "start" /\ width = 16
    /\ csum' = recalc_csum16(csum, field.lo, new.lo)
    /\ field' = new
    /\ cspc' = "done"
    /\ UNCHANGED <<width, rest, new>>
    /\ UNCHANGED NotCs

\* modify_nh: nh->ip_csum = recalc_csum32(...); *field = new
modify_nh ==
    /\ cspc = "start" /\ width = 32
    /\ csum' = recalc_csum32(csum, field, new)
    /\ field' = new
    /\ cspc' = "done"
    /\ UNCHANGED <<width, rest, new>>
    /\ UNCHANGED NotCs

\* update_csum(sum, skb, from, to, pseudohdr) of the kernel build for a packet
\* whose checksum is not left to the hardware: csum_fold(csum_partial(diff,
\* ~csum_unfold(*sum))) with diff = {~from, to}, a one's-complement sum with
\* every carry folded, then complemented.
update_csum(sum, from, to) ==
    Not16(Fold(Not16(sum) + Not16(from.hi) + Not16(from.lo) + to.hi + to.lo))

\* A UDP/IPv4 packet is about to have a port or an address rewritten; its
\* checksum field is correct, or zero because the sender computed none.
UdpChecksum(r, f) ==
    IF InternetChecksum(r, f) = 0 THEN UINT16_MAX ELSE InternetChecksum(r, f)
UdpAtStart ==
    /\ width \in {16, 32}
    /\ rest \in RestSums
    /\ field \in Halves(width)
    /\ new \in Halves(width)
    /\ csum \in {0, UdpChecksum(rest, field)}
    /\ cspc = "start"

\* if (th->udp_csum) { ...; if (!th->udp_csum) th->udp_csum = 0xffff; }
Escaped(old_csum, updated) ==
    IF old_csum = 0 THEN 0
    ELSE IF updated = 0 THEN UINT16_MAX ELSE updated

\* modify_nh, UDP: user space guards the zero checksum, the kernel calls
\* update_csum on whatever is stored.
modify_nh_udp ==
    /\ cspc = "start" /\ width = 32
    /\ csum' = IF impl = "switch"
               THEN Escaped(csum, recalc_csum32(csum, field, new))
               ELSE update_csum(csum, field, new)
    /\ field' = new
    /\ cspc' = "done"
    /\ UNCHANGED <<width, rest, new>>
    /\ UNCHANGED NotCs

\* modify_th, UDP: th->udp_csum = recalc_csum16(...) in user space,
\* update_csum in the kernel, unguarded in both.
modify_th_udp ==
    /\ cspc = "start" /\ width = 16
    /\ csum' = IF impl = "switch" THEN recalc_csum16(csum, field.lo, new.lo)
               ELSE update_csum(csum, field, new)
    /\ field' = new
    /\ cspc' = "done"
    /\ UNCHANGED <<width, rest, new>>
    /\ UNCHANGED NotCs

-----------------------------------------------------------------------------
(* Flow keys and matching.  The model's keys carry the ingress port and the
   IP source address; frames are IPv4 and dl_type is never wildcarded.  The
   wildcard word and the address are narrower than in the program. *)

OFPFW_IN_PORT == 1          \* bit 0 of the wildcard word
OFPFW_NW_SRC_SHIFT == 1     \* position of the count of wildcarded nw_src bits
OFPFW_NW_SRC_BITS == 1      \* width of that count
OFPFW_ALL == 3
NW_BITS == 1                \* width of an IP address
NW_ALL == Pow2(NW_BITS) - 1

RECURSIVE BitAnd(_, _)
BitAnd(a, b) ==
    IF a = 0 \/ b = 0 THEN 0
    ELSE (a % 2) * (b % 2) + 2 * BitAnd(a \div 2, b \div 2)
RECURSIVE BitXor(_, _)
BitXor(a, b) ==
    IF a = 0 /\ b = 0 THEN 0
    ELSE ((a + b) % 2) + 2 * BitXor(a \div 2, b \div 2)
BitOr(a, b) == a + b - BitAnd(a, b)

\* flow_fields_match(a, b, w, src_mask, dst_mask)
flow_fields_match(a, b, w, src_mask) ==
    /\ (BitAnd(w, OFPFW_IN_PORT) # 0 \/ a.in_port = b.in_port)
    /\ BitAnd(BitXor(a.nw_src, b.nw_src), src_mask) = 0

\* Fields equal modulo the wildcards of b.
flow_matches_1wild(a, b) ==
    flow_fields_match(a, b, b.wildcards, b.nw_src_mask)

\* Fields equal modulo the wildcards of a or b.
flow_matches_2wild(a, b) ==
    flow_fields_match(a, b, BitOr(a.wildcards, b.wildcards),
                      BitAnd(a.nw_src_mask, b.nw_src_mask))

flow_del_matches_2wild(t, d, strict) ==
    IF strict /\ d.wildcards # t.wildcards THEN FALSE
    ELSE flow_matches_2wild(t, d)

\* t: the table entry's key, d: the key describing the deletion.
flow_del_matches(t, d, strict) ==
    IF strict /\ d.wildcards # t.wildcards THEN FALSE
    ELSE flow_matches_1wild(t, d)

make_nw_mask(n_wild_bits) ==
    LET n == n_wild_bits % Pow2(OFPFW_NW_SRC_BITS)
    IN  IF n < NW_BITS THEN NW_ALL - (Pow2(n) - 1) ELSE 0

\* flow_extract_match: the key of a flow, from the ofp_match of a FLOW_MOD.
flow_extract_match(from) ==
    LET w == BitAnd(from.wildcards, OFPFW_ALL)
    IN  [in_port |-> from.in_port, nw_src |-> from.nw_src, wildcards |-> w,
         nw_src_mask |-> make_nw_mask(w \div Pow2(OFPFW_NW_SRC_SHIFT))]

\* flow_extract: the key of a received frame.  The kernel's sets the masks to
\* zero; user-space fwd_port_input sets only key.wildcards and the fields, so
\* the masks hold whatever the stack held.
flow_extract(im, pkt, in_port) ==
    {[in_port |-> in_port, nw_src |-> pkt.nw_src, wildcards |-> 0,
      nw_src_mask |-> m] : m \in IF im = "datapath" THEN {0} ELSE {0, NW_ALL}}

-----------------------------------------------------------------------------
(* The hash tables (table-hash.c) *)

NoFlow == [id |-> 0]
bucket_mask == 1            \* number of buckets minus 1
Buckets == 0 .. bucket_mask
Polynomials == <<1, 2>>     \* stand-ins for 0x1EDC6F41 and 0x741B8CD7

\* The bytes of a key, wildcards and masks included, as one number, and a
\* stand-in for the CRC-32 of those bytes.
KeyBytes(key) ==
    key.in_port + 2 * key.nw_src + 4 * key.nw_src_mask + 8 * key.wildcards
crc32_calculate(polynomial, key) == KeyBytes(key) \div polynomial

find_bucket(t, key) ==
    BitAnd(crc32_calculate(Polynomials[t], key), bucket_mask)

\* !memcmp(&flow->key, key, sizeof *key)
KeysNeverEqual(k1, k2) == FALSE
KeysEqual(k1, k2) == k1 = k2

EmptyTable == [buckets |-> [b \in Buckets |-> NoFlow], n_flows |-> 0]

table_hash_lookup(th, t, key) ==
    LET flow == th.buckets[find_bucket(t, key)]
    IN  IF flow # NoFlow /\ KeysEqual(flow.key, key) THEN flow ELSE NoFlow

table_hash_insert(th, t, flow) ==
    IF flow.key.wildcards # 0 THEN [th |-> th, retval |-> 0]
    ELSE LET bucket == find_bucket(t, flow.key)
             old_flow == th.buckets[bucket]
         IN  IF old_flow = NoFlow
             THEN [th |-> [buckets |-> [th.buckets EXCEPT ![bucket] = flow],
                           n_flows |-> th.n_flows + 1],
                   retval |-> 1]
             ELSE IF KeysEqual(old_flow.key, flow.key)
             THEN [th |-> [th EXCEPT !.buckets[bucket] = flow], retval |-> 1]
             ELSE [th |-> th, retval |-> 0]

\* The buckets table_hash_delete empties.
DeletedBuckets(th, t, key, strict) ==
    IF key.wildcards = 0
    THEN {b \in {find_bucket(t, key)} :
            th.buckets[b] # NoFlow /\ KeysEqual(th.buckets[b].key, key)}
    ELSE {b \in Buckets :
            th.buckets[b] # NoFlow
            /\ flow_del_matches(th.buckets[b].key, key, strict)}

table_hash_delete(th, t, key, strict) ==
    LET D == DeletedBuckets(th, t, key, strict)
    IN  [th |-> [buckets |-> [b \in Buckets |->
                                IF b \in D THEN NoFlow ELSE th.buckets[b]],
                 n_flows |-> th.n_flows - Cardinality(D)],
         count |-> Cardinality(D)]

table_hash2_lookup(t2, key) ==
    LET f0 == table_hash_lookup(t2[1], 1, key)
    IN  IF f0 # NoFlow THEN f0 ELSE table_hash_lookup(t2[2], 2, key)

table_hash2_insert(t2, flow) ==
    LET r0 == table_hash_insert(t2[1], 1, flow)
        r1 == table_hash_insert(t2[2], 2, flow)
    IN  IF r0.retval # 0 THEN [t2 |-> <<r0.th, t2[2]>>, retval |-> 1]
        ELSE [t2 |-> <<t2[1], r1.th>>, retval |-> r1.retval]

table_hash2_delete(t2, key, strict) ==
    LET r0 == table_hash_delete(t2[1], 1, key, strict)
        r1 == table_hash_delete(t2[2], 2, key, strict)
    IN  [t2 |-> <<r0.th, r1.th>>, count |-> r0.count + r1.count]

\* The flows in a set of buckets, in bucket order.
RECURSIVE FlowsIn(_, _, _)
FlowsIn(th, B, b) ==
    IF b > bucket_mask THEN <<>>
    ELSE (IF b \in B THEN <<th.buckets[b]>> ELSE <<>>) \o FlowsIn(th, B, b + 1)

-----------------------------------------------------------------------------
(* Flow timers *)

OFP_FLOW_PERMANENT == 0
OFPER_IDLE_TIMEOUT == 0
OFPER_HARD_TIMEOUT == 1
HZ == 1                     \* jiffies per second

\* int flow_timeout(struct sw_flow *) of the kernel build: the reason the
\* flow expired, or -1.
flow_timeout_datapath(flow, t) ==
    IF flow.idle_timeout # OFP_FLOW_PERMANENT
       /\ t > flow.used + flow.idle_timeout * HZ
    THEN OFPER_IDLE_TIMEOUT
    ELSE IF flow.hard_timeout # OFP_FLOW_PERMANENT
            /\ t > flow.init_time + flow.hard_timeout * HZ
    THEN OFPER_HARD_TIMEOUT
    ELSE -1

\* bool flow_timeout(struct sw_flow *) of the user-space build.
flow_timeout_switch(flow, t) ==
    \/ flow.idle_timeout # OFP_FLOW_PERMANENT
       /\ t > flow.used + flow.idle_timeout
    \/ flow.hard_timeout # OFP_FLOW_PERMANENT
       /\ t > flow.init_time + flow.hard_timeout

\* if (flow && flow_timeout(flow)) in table_hash_timeout: the kernel build
\* tests the int as a truth value.
TimeoutTest(im, flow, t) ==
    IF im = "datapath" THEN flow_timeout_datapath(flow, t) # 0
    ELSE flow_timeout_switch(flow, t)

\* table_hash_timeout: the buckets emptied and the flows taken from them.
table_hash_timeout(im, th, t) ==
    LET T == {b \in Buckets : th.buckets[b] # NoFlow
                              /\ TimeoutTest(im, th.buckets[b], t)}
    IN  [th |-> [buckets |-> [b \in Buckets |->
                                IF b \in T THEN NoFlow ELSE th.buckets[b]],
                 n_flows |-> th.n_flows - Cardinality(T)],
         deleted |-> FlowsIn(th, T, 0)]

table_hash2_timeout(im, t2, t) ==
    LET r0 == table_hash_timeout(im, t2[1], t)
        r1 == table_hash_timeout(im, t2[2], t)
    IN  [t2 |-> <<r0.th, r1.th>>, deleted |-> r0.deleted \o r1.deleted]

-----------------------------------------------------------------------------
(* The linear table: an ordered list that accepts any flow *)

TABLE_LINEAR_MAX_FLOWS == 2

\* The first entry that matches key under the one-sided rule.
table_linear_lookup(lin, key) ==
    LET M == {i \in DOMAIN lin : flow_matches_1wild(key, lin[i].key)}
    IN  IF M = {} THEN NoFlow
        ELSE lin[CHOOSE i \in M : \A j \in M : i <= j]

\* An entry with the same key and priority is replaced where it stands;
\* otherwise the flow goes behind the entries of equal or higher priority.
table_linear_insert(lin, flow) ==
    LET Same == {i \in DOMAIN lin : lin[i].key = flow.key
                                    /\ lin[i].priority = flow.priority}
        n == Cardinality({i \in DOMAIN lin : lin[i].priority >= flow.priority})
    IN  IF Same # {}
        THEN [lin |-> [lin EXCEPT ![CHOOSE i \in Same : TRUE] = flow],
              retval |-> 1]
        ELSE IF Len(lin) >= TABLE_LINEAR_MAX_FLOWS
        THEN [lin |-> lin, retval |-> 0]
        ELSE [lin |-> SubSeq(lin, 1, n) \o <<flow>>
                      \o SubSeq(lin, n + 1, Len(lin)),
              retval |-> 1]

RECURSIVE Filter(_, _, _)
Filter(lin, D, i) ==
    IF i > Len(lin) THEN <<>>
    ELSE (IF i \in D THEN <<>> ELSE <<lin[i]>>) \o Filter(lin, D, i + 1)
RECURSIVE Pick(_, _, _)
Pick(lin, D, i) ==
    IF i > Len(lin) THEN <<>>
    ELSE (IF i \in D THEN <<lin[i]>> ELSE <<>>) \o Pick(lin, D, i + 1)

\* The kernel hands the request's priority down to the tables; a strict
\* delete there takes only entries of that priority.  User-space chain_delete
\* has no priority to hand down.
table_linear_delete(im, lin, key, priority, strict) ==
    LET D == {i \in DOMAIN lin :
                /\ flow_del_matches(lin[i].key, key, strict)
                /\ (im = "datapath" /\ strict) => lin[i].priority = priority}
    IN  [lin |-> Filter(lin, D, 1), count |-> Cardinality(D)]

\* The sweep of the linear table removes the flows whose timer has run out.
table_linear_timeout(im, lin, t) ==
    LET T == {i \in DOMAIN lin :
                IF im = "datapath" THEN flow_timeout_datapath(lin[i], t) >= 0
                ELSE flow_timeout_switch(lin[i], t)}
    IN  [lin |-> Filter(lin, T, 1), deleted |-> Pick(lin, T, 1)]

-----------------------------------------------------------------------------
(* The chain: the double-hash table, then the linear table *)

ENOBUFS == 105

chain_lookup(t2, lin, key) ==
    LET f == table_hash2_lookup(t2, key)
        g == table_linear_lookup(lin, key)
    IN  IF f # NoFlow THEN [flow |-> f, table |-> 0]
        ELSE IF g # NoFlow THEN [flow |-> g, table |-> 1]
        ELSE [flow |-> NoFlow, table |-> -1]

chain_insert_returns_zero(t2, lin, flow) ==
    LET r == table_hash2_insert(t2, flow)
        l == table_linear_insert(lin, flow)
    IN  IF r.retval # 0 THEN [t2 |-> r.t2, lin |-> lin, error |-> 0]
        ELSE IF l.retval # 0 THEN [t2 |-> t2, lin |-> l.lin, error |-> 0]
        ELSE [t2 |-> t2, lin |-> lin, error |-> 0]

chain_insert(t2, lin, flow) ==
    LET r == table_hash2_insert(t2, flow)
        l == table_linear_insert(lin, flow)
    IN  IF r.retval # 0 THEN [t2 |-> r.t2, lin |-> lin, error |-> 0]
        ELSE IF l.retval # 0 THEN [t2 |-> t2, lin |-> l.lin, error |-> 0]
        ELSE [t2 |-> t2, lin |-> lin, error |-> -ENOBUFS]

chain_delete(im, t2, lin, key, priority, strict) ==
    LET r == table_hash2_delete(t2, key, strict)
        l == table_linear_delete(im, lin, key, priority, strict)
    IN  [t2 |-> r.t2, lin |-> l.lin, count |-> r.count + l.count]

chain_timeout(im, t2, lin, t) ==
    LET r == table_hash2_timeout(im, t2, t)
        l == table_linear_timeout(im, lin, t)
    IN  [t2 |-> r.t2, lin |-> l.lin, deleted |-> r.deleted \o l.deleted]

\* Every flow the chain holds, by table.
HashFlows(t2) ==
    {t2[t].buckets[b] : t \in {1, 2}, b \in Buckets} \ {NoFlow}
LinearFlows(lin) == {lin[i] : i \in DOMAIN lin}
Installed(t2, lin) == HashFlows(t2) \cup LinearFlows(lin)

-----------------------------------------------------------------------------
(* FLOW_MOD handling, the sweep and the clock *)

OFPP_TABLE == 65529
OFPP_NONE == 65535
OFPP_CONTROLLER == 65533
OFPR_NO_MATCH == "NO_MATCH"
OFPR_ACTION == "ACTION"
ENOMEM == 12
E2BIG == 7
MAX_ACTIONS == 16
ESRCH == 3
ENODEV == 19
OFP_DEFAULT_MISS_SEND_LEN == 128

\* The matches, timeouts and priorities the controller sends.
Matches ==
    [wildcards : {0}, in_port : {1}, nw_src : {0, 1}]
    \cup [wildcards : {OFPFW_IN_PORT}, in_port : {1}, nw_src : {0}]
Timeouts ==
    {[idle_timeout |-> OFP_FLOW_PERMANENT, hard_timeout |-> OFP_FLOW_PERMANENT],
     [idle_timeout |-> 1, hard_timeout |-> OFP_FLOW_PERMANENT],
     [idle_timeout |-> OFP_FLOW_PERMANENT, hard_timeout |-> 1]}
Priorities == {1}
Output(port) ==
    [type |-> OFPAT_OUTPUT, port |-> port, max_len |-> 0, dl_addr |-> 0]
FlowMods ==
    [match : Matches, priority : Priorities, timeouts : Timeouts,
     actions : {<<Output(2)>>}, buffer_id : {UINT32_MAX}]

\* The fields of a flow that user-space add_flow never assigns after malloc.
Uninit ==
    [priority : Priorities, timeouts : Timeouts, used : {0}]

ChLast(op) ==
    [op |-> op, key |-> flow_extract_match(CHOOSE m \in Matches : TRUE),
     flow |-> NoFlow, table |-> -1, removed |-> {}, error |-> 0,
     buffer_id |-> UINT32_MAX, strict |-> FALSE, priority |-> 0,
     actions |-> <<>>, nomem |-> {}, len |-> 0]

\* The datapath as chain_create and dp_create leave it.
ChainAtStart ==
    /\ hash2 = <<EmptyTable, EmptyTable>>
    /\ linear = <<>>
    /\ jiffies = 0
    /\ last_timeout = 0
    /\ send_flow_exp = FALSE
    /\ n_alloc = 0
    /\ expired = <<>>
    /\ chlast = ChLast("none")
    /\ miss_send_len = OFP_DEFAULT_MISS_SEND_LEN
    /\ packet_ins = <<>>
    /\ ctl = [pc |-> "idle"]

\* The loop-prevention test of the kernel's add_flow and mod_flow.
LoopingOutput(ofm) ==
    \E i \in DOMAIN ofm.actions :
        /\ ofm.actions[i].type = OFPAT_OUTPUT
        /\ ofm.actions[i].port \in {OFPP_TABLE, OFPP_NONE, ofm.match.in_port}

\* "Fill out flow": the kernel fills every field from the message; the
\* user-space add_flow fills the key, the creation time and the actions.
FilledFlow(im, ofm, u) ==
    LET key == flow_extract_match(ofm.match)
    IN  IF im = "datapath"
        THEN [id |-> n_alloc + 1, key |-> key,
              priority |-> IF key.wildcards # 0 THEN ofm.priority
                           ELSE UINT16_MAX,
              idle_timeout |-> ofm.timeouts.idle_timeout,
              hard_timeout |-> ofm.timeouts.hard_timeout,
              used |-> jiffies, init_time |-> jiffies,
              byte_count |-> 0, packet_count |-> 0,
              actions |-> ofm.actions]
        ELSE [id |-> n_alloc + 1, key |-> key, priority |-> u.priority,
              idle_timeout |-> u.timeouts.idle_timeout,
              hard_timeout |-> u.timeouts.hard_timeout,
              used |-> u.used, init_time |-> jiffies,
              byte_count |-> 0, packet_count |-> 0,
              actions |-> ofm.actions]

\* void flow_used(struct sw_flow *, buffer)
flow_used(flow, buffer) ==
    [flow EXCEPT !.used = jiffies, !.packet_count = @ + 1,
                 !.byte_count = @ + buffer.len]

\* if (n_acts > MAX_ACTIONS): the check of user-space add_flow.
NoLimit(ofm) == FALSE
TooManyActions(ofm) == Len(ofm.actions) > MAX_ACTIONS

\* add_flow: validate (looping outputs in the kernel build, the number of
\* actions in user space), fill out the flow, insert it, and run its actions
\* on the buffer the message names; on failure discard that buffer.
AddFlow(ofm, u) ==
    /\ n_alloc < MaxFlows
    /\ LET named == ofm.buffer_id # UINT32_MAX
           rejected == \/ impl = "datapath" /\ LoopingOutput(ofm)
                       \/ impl = "switch" /\ TooManyActions(ofm)
           flow == FilledFlow(impl, ofm, u)
           buffer == BufferOf(ofm.buffer_id)
           hit == named /\ buffer # NULL
           r == chain_insert(hash2, linear, flow)
           ru == chain_insert(hash2, linear, flow_used(flow, FrameOf(buffer)))
           failed == rejected \/ r.error # 0
       IN  /\ n_alloc' = IF rejected THEN n_alloc ELSE n_alloc + 1
           /\ hash2' = IF failed THEN hash2 ELSE IF hit THEN ru.t2 ELSE r.t2
           /\ linear' = IF failed THEN linear ELSE IF hit THEN ru.lin ELSE r.lin
           /\ chlast' = [ChLast("add") EXCEPT
                            !.buffer_id = ofm.buffer_id,
                            !.flow = IF rejected THEN NoFlow ELSE flow,
                            !.error = IF rejected
                                      THEN IF impl = "switch" THEN -E2BIG
                                           ELSE -ENOMEM
                                      ELSE IF r.error # 0 THEN r.error
                                      ELSE IF named /\ ~hit THEN -ESRCH
                                      ELSE 0]
           /\ IF ~named THEN UNCHANGED <<bufVars, actVars>>
              ELSE IF failed
              THEN DiscardBuffer(ofm.buffer_id) /\ UNCHANGED actVars
              ELSE /\ RetrieveBuffer(ofm.buffer_id)
                   /\ IF hit THEN ExecuteOn(FrameOf(buffer), ofm.actions)
                      ELSE UNCHANGED actVars
    /\ UNCHANGED <<jiffies, last_timeout, send_flow_exp, expired>>
    /\ UNCHANGED <<impl, csVars, inVars, lockVars, portVars, secVars, vlanVars, loopVars, rcuVars, relayVars>>

\* chain_modify: the action list of every flow the request selects is
\* replaced in place.
ModMatches(f, key, priority, strict) ==
    /\ flow_matches_2wild(f.key, key)
    /\ strict => (f.key.wildcards = key.wildcards /\ f.priority = priority)
\* void flow_replace_acts(flow, actions, n_actions): ok says whether malloc
\* returned memory for the new list.
flow_replace_acts_frees_first(flow, actions, ok) ==
    IF ok THEN [flow EXCEPT !.actions = actions]
    ELSE [flow EXCEPT !.actions = <<>>]
flow_replace_acts(flow, actions, ok) ==
    IF ok THEN [flow EXCEPT !.actions = actions] ELSE flow

\* nomem: the flows for which the allocation of the new list fails.
Modified(f, key, priority, strict, actions, nomem) ==
    IF f # NoFlow /\ ModMatches(f, key, priority, strict)
    THEN flow_replace_acts(f, actions, f.id \notin nomem) ELSE f
chain_modify(t2, lin, key, priority, strict, actions, nomem) ==
    [t2 |-> [t \in {1, 2} |->
                [t2[t] EXCEPT !.buckets = [b \in Buckets |->
                    Modified(t2[t].buckets[b], key, priority, strict,
                             actions, nomem)]]],
     lin |-> [i \in DOMAIN lin |->
                Modified(lin[i], key, priority, strict, actions, nomem)]]

\* mod_flow of the kernel build; the user-space recv_flow knows no MODIFY and
\* answers -ENODEV.
ModFlow(ofm, nomem) ==
    /\ LET named == ofm.buffer_id # UINT32_MAX
           key == flow_extract_match(ofm.match)
           priority == IF key.wildcards # 0 THEN ofm.priority ELSE UINT16_MAX
           buffer == BufferOf(ofm.buffer_id)
           hit == named /\ buffer # NULL
           r == chain_modify(hash2, linear, key, priority, ofm.strict,
                             ofm.actions, nomem)
       IN  IF impl = "switch"
           THEN /\ chlast' = [ChLast("modify") EXCEPT !.error = -ENODEV]
                /\ UNCHANGED <<hash2, linear, bufVars, actVars>>
           ELSE IF LoopingOutput(ofm)
           THEN /\ chlast' = [ChLast("modify") EXCEPT !.error = -ENOMEM]
                /\ UNCHANGED <<hash2, linear, actVars>>
                /\ IF named THEN DiscardBuffer(ofm.buffer_id)
                   ELSE UNCHANGED bufVars
           ELSE /\ hash2' = r.t2
                /\ linear' = r.lin
                /\ chlast' = [ChLast("modify") EXCEPT
                                !.key = key,
                                !.strict = ofm.strict,
                                !.priority = priority,
                                !.actions = ofm.actions,
                                !.nomem = nomem,
                                !.buffer_id = ofm.buffer_id,
                                !.error = IF named /\ ~hit THEN -ESRCH
                                          ELSE -ENOMEM]
                /\ IF named
                   THEN /\ RetrieveBuffer(ofm.buffer_id)
                        /\ IF hit THEN ExecuteOn(FrameOf(buffer), ofm.actions)
                           ELSE UNCHANGED actVars
                   ELSE UNCHANGED <<bufVars, actVars>>
    /\ UNCHANGED <<jiffies, last_timeout, send_flow_exp, n_alloc, expired>>
    /\ UNCHANGED <<impl, csVars, inVars, lockVars, portVars, secVars, vlanVars, loopVars, rcuVars, relayVars>>

\* The FLOW_MOD messages of a controller that also sends looping outputs and
\* names buffers.
FlowModMsgs ==
    [command : {"ADD", "MODIFY"}, strict : BOOLEAN,
     match : {m \in Matches : m.nw_src = 0},
     priority : Priorities,
     timeouts : {[idle_timeout |-> OFP_FLOW_PERMANENT,
                  hard_timeout |-> OFP_FLOW_PERMANENT]},
     actions : {<<Output(1)>>, <<Output(2)>>, <<Output(OFPP_TABLE)>>,
                <<Output(OFPP_NONE)>>},
     buffer_id : BufferIds]

\* recv_flow: OFPFC_ADD, OFPFC_MODIFY and OFPFC_MODIFY_STRICT
\* No sweep runs beside these messages, so the timeout fields malloc left
\* behind are never read; one value stands for them.
UninitUnread ==
    {u \in Uninit : u.timeouts.idle_timeout = OFP_FLOW_PERMANENT
                     /\ u.timeouts.hard_timeout = OFP_FLOW_PERMANENT}
recv_flow ==
    \E ofm \in FlowModMsgs, u \in UninitUnread :
        /\ Len(heap) < MaxRuns
        /\ IF ofm.command = "ADD" THEN ~ofm.strict /\ AddFlow(ofm, u)
           ELSE ModFlow(ofm, {})

\* FLOW_MOD ADD messages that fill the linear table: one wildcarded match
\* under more priorities than the table has room for, with and without a
\* buffer.  User-space add_flow leaves the priority as malloc returned it.
FullPriorities == 1 .. TABLE_LINEAR_MAX_FLOWS + 1
FullMods ==
    [match : {m \in Matches : m.nw_src = 0}, priority : FullPriorities,
     timeouts : {[idle_timeout |-> OFP_FLOW_PERMANENT,
                  hard_timeout |-> OFP_FLOW_PERMANENT]},
     actions : {<<Output(2)>>}, buffer_id : BufferIds]
UninitFull ==
    [priority : FullPriorities,
     timeouts : {[idle_timeout |-> OFP_FLOW_PERMANENT,
                  hard_timeout |-> OFP_FLOW_PERMANENT]},
     used : {0}]
add_flow_full ==
    \E ofm \in FullMods, u \in UninitFull :
        /\ Len(heap) < MaxRuns
        /\ AddFlow(ofm, u)

\* FLOW_MOD ADD messages with MAX_ACTIONS actions and with one more, with
\* and without a buffer.
Outputs(n) == [i \in 1 .. n |-> Output(2)]
LongMods ==
    [match : {m \in Matches : m.nw_src = 0}, priority : {1},
     timeouts : {[idle_timeout |-> OFP_FLOW_PERMANENT,
                  hard_timeout |-> OFP_FLOW_PERMANENT]},
     actions : {Outputs(MAX_ACTIONS), Outputs(MAX_ACTIONS + 1)},
     buffer_id : BufferIds]
add_long_flow ==
    \E ofm \in LongMods, u \in {v \in UninitFull : v.priority = 1} :
        /\ Len(heap) < MaxRuns
        /\ AddFlow(ofm, u)

\* recv_flow, OFPFC_ADD
add_flow == \E ofm \in FlowMods, u \in Uninit : AddFlow(ofm, u)

RulePriorities == {1, 2}

\* FLOW_MOD MODIFY and MODIFY_STRICT messages that name no buffer; the
\* allocation of a new action list may fail for one of the flows.
SetDlSrc(addr) ==
    [type |-> OFPAT_SET_DL_SRC, port |-> 0, max_len |-> 0, dl_addr |-> addr]
\* The matches of the rules MODIFY is tried on: one exact, one wildcarded.
ModRuleMatches == {m \in Matches : m.nw_src = 0}
ModMsgs ==
    [strict : BOOLEAN, match : ModRuleMatches, priority : RulePriorities,
     actions : {<<SetDlSrc(1), Output(2)>>},
     buffer_id : {UINT32_MAX}]
NoMem == {{}} \cup {{i} : i \in 1 .. MaxFlows}
mod_flow == \E ofm \in ModMsgs, nomem \in NoMem : ModFlow(ofm, nomem)

\* FLOW_MOD ADD messages for rules of two priorities, the timers off.
RuleMods ==
    [match : Matches, priority : RulePriorities,
     timeouts : {[idle_timeout |-> OFP_FLOW_PERMANENT,
                  hard_timeout |-> OFP_FLOW_PERMANENT]},
     actions : {<<Output(2)>>}, buffer_id : {UINT32_MAX}]
UninitRules ==
    [priority : RulePriorities,
     timeouts : {[idle_timeout |-> OFP_FLOW_PERMANENT,
                  hard_timeout |-> OFP_FLOW_PERMANENT]},
     used : {0}]
add_rule == \E ofm \in RuleMods, u \in UninitRules : AddFlow(ofm, u)
add_input_rule ==
    \E ofm \in {r \in RuleMods : r.match \in ModRuleMatches /\ r.priority = 1},
       u \in UninitRules :
        AddFlow(ofm, u)
add_mod_rule ==
    \E ofm \in {r \in RuleMods : r.match \in ModRuleMatches}, u \in UninitRules :
        AddFlow(ofm, u)

\* The matches of DELETE requests: those of the rules, and one that differs
\* from them in the ingress port alone.
DeleteMatches ==
    Matches \cup [wildcards : {0}, in_port : {2}, nw_src : {0}]

\* recv_flow, OFPFC_DELETE and OFPFC_DELETE_STRICT
delete_flow ==
    \E match \in DeleteMatches, strict \in BOOLEAN, p \in RulePriorities :
        LET key == flow_extract_match(match)
            priority == IF key.wildcards # 0 THEN p ELSE UINT16_MAX
            r == chain_delete(impl, hash2, linear, key, priority, strict)
        IN  /\ hash2' = r.t2
            /\ linear' = r.lin
            /\ chlast' = [ChLast("delete") EXCEPT
                            !.key = key,
                            !.strict = strict,
                            !.priority = priority,
                            !.removed = Installed(hash2, linear)
                                           \ Installed(r.t2, r.lin),
                            !.error = IF r.count # 0 THEN 0 ELSE -ESRCH]
            /\ UNCHANGED <<jiffies, last_timeout, send_flow_exp, n_alloc,
                           expired>>
            /\ UNCHANGED <<impl, NotCh>>

Ids(flows) == [i \in DOMAIN flows |-> flows[i].id]

\* The sweep.  User space: dp_run calls chain_timeout once per second and
\* sends FLOW_EXPIRED for every flow on the deleted list.  Kernel: the tables'
\* timeout functions send it themselves, when the flag is set.
sweep ==
    /\ impl = "switch" => jiffies # last_timeout
    /\ LET r == chain_timeout(impl, hash2, linear, jiffies)
       IN  /\ hash2' = r.t2
           /\ linear' = r.lin
           /\ expired' = IF impl = "switch" \/ send_flow_exp
                         THEN expired \o Ids(r.deleted) ELSE expired
           /\ chlast' = [ChLast("timeout") EXCEPT
                            !.removed = Range(r.deleted)]
    /\ last_timeout' = IF impl = "switch" THEN jiffies ELSE last_timeout
    /\ UNCHANGED <<jiffies, send_flow_exp, n_alloc>>
    /\ UNCHANGED <<impl, NotCh>>

\* A frame's key is looked up in the chain.
Packets == [in_port : {1, 2}, nw_src : {0, 1}]
lookup ==
    \E pkt \in Packets :
        \E key \in flow_extract(impl, pkt, pkt.in_port) :
            LET r == chain_lookup(hash2, linear, key)
            IN  /\ chlast' = [ChLast("lookup") EXCEPT
                                !.key = key, !.flow = r.flow,
                                !.table = r.table]
                /\ UNCHANGED <<hash2, linear, jiffies, last_timeout,
                               send_flow_exp, n_alloc, expired>>
                /\ UNCHANGED <<impl, NotCh>>

\* recv_set_config: the controller sets or clears SEND_FLOW_EXP and sets
\* miss_send_len.
MissSendLens == {30, OFP_DEFAULT_MISS_SEND_LEN}
recv_set_config ==
    /\ \E flag \in BOOLEAN : send_flow_exp' = flag
    /\ \E len \in MissSendLens : miss_send_len' = len
    /\ chlast' = ChLast("config")
    /\ UNCHANGED <<hash2, linear, jiffies, last_timeout, n_alloc, expired>>
    /\ UNCHANGED <<impl, bufVars, actVars, csVars, packet_ins, ctl,
                   lockVars, portVars, secVars, vlanVars, loopVars, rcuVars, relayVars>>

\* One second passes.
timer ==
    /\ jiffies < MaxJiffies
    /\ jiffies' = jiffies + 1
    /\ chlast' = ChLast("timer")
    /\ UNCHANGED <<hash2, linear, last_timeout, send_flow_exp, n_alloc,
                   expired>>
    /\ UNCHANGED <<impl, NotCh>>

-----------------------------------------------------------------------------
(* Frames from the ports and PACKET_OUT (fwd_port_input, recv_packet_out) *)

MaxInputs == 2      \* frames received from the ports
MaxOuts == 2        \* PACKET_OUT messages handled

Min(a, b) == IF a < b THEN a ELSE b

\* The PACKET_IN that user-space dp_output_control sends for a frame of len
\* bytes that save_buffer answered with buffer_id: the frame is cut to
\* max_len bytes only when it was saved, and total_len is read before the cut.
dp_output_control_cuts_first(buffer_id, len, in_port, max_len, reason) ==
    LET size == IF buffer_id # UINT32_MAX /\ len > max_len THEN max_len
                ELSE len
    IN  [buffer_id |-> buffer_id, total_len |-> size, in_port |-> in_port,
         reason |-> reason, length |-> size]
dp_output_control(buffer_id, len, in_port, max_len, reason) ==
    LET size == IF buffer_id # UINT32_MAX /\ len > max_len THEN max_len
                ELSE len
    IN  [buffer_id |-> buffer_id, total_len |-> len, in_port |-> in_port,
         reason |-> reason, length |-> size]

\* The PACKET_IN of the kernel build: the payload is at most max_len bytes.
dp_output_control_skb(buffer_id, len, in_port, max_len, reason) ==
    [buffer_id |-> buffer_id, total_len |-> len, in_port |-> in_port,
     reason |-> reason, length |-> Min(len, max_len)]

PacketIn(im, buffer_id, len, in_port, max_len, reason) ==
    IF im = "switch"
    THEN dp_output_control(buffer_id, len, in_port, max_len, reason)
    ELSE dp_output_control_skb(buffer_id, len, in_port, max_len, reason)

\* The flow with this id after flow_used has counted the frame.
Used(f, id, frame) ==
    IF f # NoFlow /\ f.id = id THEN flow_used(f, frame) ELSE f
FlowUsed(t2, lin, id, frame) ==
    [t2 |-> [t \in {1, 2} |->
                [t2[t] EXCEPT !.buckets = [b \in Buckets |->
                    Used(t2[t].buckets[b], id, frame)]]],
     lin |-> [i \in DOMAIN lin |-> Used(lin[i], id, frame)]]

\* The frames the ports receive: no IP fragments, on ports that receive.
PortFrames == [in_port : {1, 2}, nw_src : {0, 1}, len : {60, 100}]

\* fwd_port_input: classify the frame; on a hit count it and run the flow's
\* actions, on a miss save it and send it to the controller.
fwd_port_input ==
    \E pkt \in PortFrames :
        \E key \in flow_extract(impl, pkt, pkt.in_port) :
            LET r == chain_lookup(hash2, linear, key)
                frame == [dl_src |-> 0, dl_dst |-> 0, len |-> pkt.len]
                u == FlowUsed(hash2, linear, r.flow.id, frame)
                id == Saved(buffers).id
            IN  /\ Len(heap) + Len(packet_ins) < MaxInputs
                /\ chlast' = [ChLast("input") EXCEPT
                                !.key = key, !.flow = r.flow,
                                !.table = r.table, !.len = pkt.len]
                /\ IF r.flow # NoFlow
                   THEN /\ hash2' = u.t2
                        /\ linear' = u.lin
                        /\ ExecuteOn(frame, r.flow.actions)
                        /\ UNCHANGED <<bufVars, packet_ins>>
                   ELSE /\ SaveBuffer(pkt.len)
                        /\ packet_ins' = Append(packet_ins,
                              PacketIn(impl, id, pkt.len, pkt.in_port,
                                       miss_send_len, OFPR_NO_MATCH))
                        /\ UNCHANGED <<hash2, linear, actVars>>
                /\ UNCHANGED <<jiffies, last_timeout, send_flow_exp, n_alloc,
                               expired, miss_send_len, ctl>>
                /\ UNCHANGED <<impl, csVars, lockVars, portVars, secVars, vlanVars, loopVars, rcuVars, relayVars>>

\* PACKET_OUT messages: the frame to send is inline (buffer_id all ones) or
\* in the buffer cache; it goes to a port or to the controller.  The kernel
\* build reads the port from a one-action list, user space reads out_port
\* for inline frames.
PacketOuts ==
    [buffer_id : BufferIds, in_port : {1}, out_port : {2, OFPP_CONTROLLER},
     len : {60}]

\* recv_packet_out
recv_packet_out ==
    \E opo \in PacketOuts :
        LET inline == opo.buffer_id = UINT32_MAX
            buffer == BufferOf(opo.buffer_id)
            frame == IF inline \/ buffer = NULL
                     THEN [dl_src |-> 0, dl_dst |-> 0, len |-> opo.len]
                     ELSE FrameOf(buffer)
            bufs == IF inline THEN buffers
                    ELSE [buffers EXCEPT ![opo.buffer_id % N_PKT_BUFFERS] =
                              ClearedSlot(@)]
            id == Saved(bufs).id
        IN  /\ Len(heap) < MaxOuts
            /\ opo.out_port = OFPP_CONTROLLER => Len(ids) < MaxSaves
            /\ IF ~inline /\ buffer = NULL
               THEN /\ chlast' = [ChLast("packet_out") EXCEPT
                                    !.buffer_id = opo.buffer_id,
                                    !.error = -ESRCH]
                    /\ RetrieveBuffer(opo.buffer_id)
                    /\ UNCHANGED <<actVars, packet_ins>>
               ELSE /\ chlast' = [ChLast("packet_out") EXCEPT
                                    !.buffer_id = opo.buffer_id,
                                    !.actions = <<Output(opo.out_port)>>,
                                    !.len = frame.len]
                    /\ ExecuteOn(frame, <<Output(opo.out_port)>>)
                    /\ IF opo.out_port = OFPP_CONTROLLER
                       THEN /\ packet_ins' = Append(packet_ins,
                                  PacketIn(impl, id, frame.len, opo.in_port,
                                           0, OFPR_ACTION))
                            /\ IF inline THEN SaveBuffer(frame.len)
                               ELSE RetrieveAndSave(opo.buffer_id, frame.len)
                       ELSE /\ UNCHANGED packet_ins
                            /\ IF inline THEN UNCHANGED bufVars
                               ELSE RetrieveBuffer(opo.buffer_id)
            /\ UNCHANGED <<hash2, linear, jiffies, last_timeout, send_flow_exp,
                           n_alloc, expired, miss_send_len, ctl>>
            /\ UNCHANGED <<impl, csVars, lockVars, portVars, secVars, vlanVars, loopVars, rcuVars, relayVars>>

-----------------------------------------------------------------------------
(* Dispatch of control messages (fwd_control_input) *)

EINVAL == 22
EFAULT == 14
ENOSYS == 38
OFP_VERSION == "OFP_VERSION"

\* The message types with a handler in the kernel build's table and in the
\* user-space build's table, and the types the kernel build takes in any
\* version.
HandledByDatapath ==
    {"HELLO", "FEATURES_REQUEST", "GET_CONFIG_REQUEST", "SET_CONFIG",
     "PACKET_OUT", "FLOW_MOD", "PORT_MOD", "ECHO_REQUEST", "ECHO_REPLY"}
HandledBySwitch ==
    {"FEATURES_REQUEST", "GET_CONFIG_REQUEST", "SET_CONFIG", "PACKET_OUT",
     "FLOW_MOD", "PORT_MOD", "FLOW_STAT_REQUEST", "PORT_STAT_REQUEST",
     "TABLE_STAT_REQUEST"}
AnyVersionTypes == {"HELLO", "ERROR", "ECHO_REQUEST", "ECHO_REPLY", "VENDOR"}
MessageTypes ==
    HandledByDatapath \cup HandledBySwitch \cup AnyVersionTypes
    \cup {"PACKET_IN"}

\* Message lengths, in units of the size of struct ofp_header.
MaxMsgLen == 3

\* packets[type].min_size: the header alone, or the header and a fixed body.
HeaderOnly ==
    {"HELLO", "FEATURES_REQUEST", "GET_CONFIG_REQUEST", "ECHO_REQUEST",
     "ECHO_REPLY"}
min_size(type) == IF type \in HeaderOnly THEN 1 ELSE 2

\* A message as fwd_control_input sees it: length bytes were received, and
\* the header's length field says oh_length.
ControlMessages ==
    [version : {OFP_VERSION, "other"}, type : MessageTypes,
     length : 1 .. MaxMsgLen, oh_length : 1 .. MaxMsgLen]
Overrun(oh) == oh.oh_length > oh.length
Short(oh) == oh.length < min_size(oh.type)

OFPET_BAD_REQUEST == "BAD_REQUEST"
OFPBRC_BAD_VERSION == "BAD_VERSION"
OFPBRC_BAD_TYPE == "BAD_TYPE"

\* dp_send_error_msg(dp, sender, type, code, msg, length): the ERROR message
\* it sends to the sender, with the offending message as its data.
dp_send_error_msg(type, code, oh) == [type |-> type, code |-> code, data |-> oh]

\* The outcomes of the dispatch: errors are the ERROR messages sent, derived
\* is header length minus fixed body size, the number from which the handler
\* computes its action count or data length.
Rejected(oh, why, error, errors) ==
    [pc |-> "done", oh |-> oh, handler |-> "none", why |-> why,
     error |-> error, errors |-> errors, derived |-> 0]
Handled(oh) ==
    [pc |-> "done", oh |-> oh, handler |-> oh.type, why |-> "none",
     error |-> 0, errors |-> <<>>,
     derived |-> oh.oh_length - min_size(oh.type)]

\* The kernel build: the outcomes of fwd_control_input(chain, sender, msg,
\* length).
fwd_control_input_datapath(oh) ==
    IF oh.version # OFP_VERSION /\ oh.type \notin AnyVersionTypes
    THEN {Rejected(oh, "version", -EINVAL,
                   <<dp_send_error_msg(OFPET_BAD_REQUEST, OFPBRC_BAD_VERSION,
                                       oh)>>)}
    ELSE IF Overrun(oh) THEN {Rejected(oh, "length", -EINVAL, <<>>)}
    ELSE IF oh.type \in HandledByDatapath
    THEN IF Short(oh) THEN {Rejected(oh, "short", -EFAULT, <<>>)}
         ELSE {Handled(oh)}
    ELSE {Rejected(oh, "type", -EINVAL,
                   <<dp_send_error_msg(OFPET_BAD_REQUEST, OFPBRC_BAD_TYPE,
                                       oh)>>)}

\* The user-space build.  Its || chain tests the version first; whether a
\* type without a handler lies inside its table depends on the numbering of
\* the types, so both answers are possible for such a type.  It sends no
\* ERROR, and remote_run drops the value it returns.
fwd_control_input_switch(oh) ==
    IF oh.version # OFP_VERSION
    THEN {Rejected(oh, "version", -EINVAL, <<>>)}
    ELSE IF oh.type \notin HandledBySwitch
    THEN {Rejected(oh, "type", -EINVAL, <<>>)} \cup
         (IF Overrun(oh) THEN {} ELSE {Rejected(oh, "type", -ENOSYS, <<>>)})
    ELSE IF Overrun(oh) THEN {Rejected(oh, "length", -EINVAL, <<>>)}
    ELSE IF Short(oh) THEN {Rejected(oh, "short", -EFAULT, <<>>)}
    ELSE {Handled(oh)}

\* A message has arrived from the controller.
ControlAtStart == ctl \in [pc : {"start"}, oh : ControlMessages]

fwd_control_input ==
    /\ ctl.pc = "start"
    /\ ctl' \in IF impl = "switch" THEN fwd_control_input_switch(ctl.oh)
                ELSE fwd_control_input_datapath(ctl.oh)
    /\ UNCHANGED <<lockVars, portVars, impl, bufVars, actVars, csVars, chVars,
                   miss_send_len, packet_ins, secVars, vlanVars, loopVars, rcuVars, relayVars>>

-----------------------------------------------------------------------------
(* Flooding in the user-space switch *)

MaxPorts == 4       \* ports of the datapath
PortNos == 1 .. MaxPorts
OFPP_FLOOD == 65531

\* No port is attached and nothing is being flooded.
PortsIdle == port_list = <<>> /\ rx_port = 0

\* dp->port_list: every attached port once, in any order, each with or
\* without BRIDGE_PORT_NO_FLOOD.
PortLists ==
    {l \in UNION {[1 .. n -> [port_no : PortNos, no_flood : BOOLEAN]] :
                     n \in 0 .. MaxPorts} :
        \A i, j \in DOMAIN l : l[i].port_no = l[j].port_no => i = j}

\* if (port_no(dp, p) == in_port || p->flags & BRIDGE_PORT_NO_FLOOD) continue;
SkipsIngressOnly(p, ingress) == p.port_no = ingress
Skips(p, ingress) == p.port_no = ingress \/ p.no_flood

\* output_packet: the block goes to the netdev of out_port.
output_packet(st, blk, out_port) ==
    [st EXCEPT !.sent = Append(@, [port |-> out_port, max_len |-> 0,
                                   blk |-> blk])]

\* One round of LIST_FOR_EACH in flood.
FloodStep(st, p, ingress) ==
    IF Skips(p, ingress) THEN st
    ELSE LET s1 == IF st.prev_port # -1
                   THEN LET c == buffer_clone(st)
                        IN  output_packet(c.st, c.blk, st.prev_port)
                   ELSE st
         IN  [s1 EXCEPT !.prev_port = p.port_no]

RECURSIVE Flooded(_, _, _, _)
Flooded(st, list, i, ingress) ==
    IF i > Len(list)
    THEN IF st.prev_port # -1
         THEN output_packet(st, st.cur, st.prev_port)
         ELSE st
    ELSE Flooded(FloodStep(st, list[i], ingress), list, i + 1, ingress)

\* The datapath is about to flood a frame that came in on some port.
FloodAtStart ==
    /\ port_list \in PortLists
    /\ rx_port \in PortNos
    /\ acts = <<Output(OFPP_FLOOD)>>
    /\ pc = "start"
    /\ input \in InputFrames
    /\ heap = <<input>>
    /\ sent = <<>>
    /\ clones = 0

\* flood(dp, buffer, in_port)
flood ==
    /\ pc = "start"
    /\ LET st0 == [heap |-> heap, cur |-> 1, prev_port |-> -1, max_len |-> 0,
                   sent |-> sent, clones |-> clones, stop |-> FALSE,
                   aborted |-> FALSE]
           st  == Flooded(st0, port_list, 1, rx_port)
       IN  /\ heap' = st.heap
           /\ sent' = st.sent
           /\ clones' = st.clones
    /\ pc' = "done"
    /\ UNCHANGED <<impl, acts, input, portVars, secVars, vlanVars, loopVars, rcuVars, relayVars>>
    /\ UNCHANGED <<bufVars, csVars, chVars, inVars, lockVars>>

-----------------------------------------------------------------------------
(* The secure channel's reconnect *)

MaxFailures == 8    \* failed vconn_open calls in one reconnect
MaxReconnects == 5  \* calls of reconnect
MaxBackoff == 60

NoCall == [pc |-> "none", this |-> 0, backoff |-> 0, waits |-> <<>>,
           calls |-> 0]

\* secchan before main has run.
SecchanIdle ==
    /\ reliable = TRUE
    /\ halves = [i \in {0, 1} |-> [vconn |-> "null"]]
    /\ rc = NoCall

\* secchan as main starts, in either mode.
SecchanAtStart ==
    /\ reliable \in BOOLEAN
    /\ halves = [i \in {0, 1} |-> [vconn |-> "null"]]
    /\ rc = NoCall

\* backoff = MIN(backoff * 2, 60)
NextBackoffUncapped(backoff) == backoff * 2
NextBackoff(backoff) == Min(backoff * 2, MaxBackoff)

\* reconnect(this) up to the first vconn_open: a dropped connection is fatal
\* in unreliable mode and closed otherwise.
Reconnect(this) ==
    /\ rc.calls < MaxReconnects
    /\ IF halves[this].vconn # "null" /\ ~reliable
       THEN /\ rc' = [rc EXCEPT !.pc = "fatal", !.this = this]
            /\ UNCHANGED halves
       ELSE /\ halves' = [halves EXCEPT ![this].vconn = "null"]
            /\ rc' = [pc |-> "open", this |-> this, backoff |-> 1,
                      waits |-> <<>>, calls |-> rc.calls + 1]
    /\ UNCHANGED reliable
    /\ UNCHANGED <<impl, bufVars, actVars, csVars, chVars, inVars, lockVars,
                   portVars, vlanVars, loopVars, rcuVars, relayVars>>

\* main: reconnect(&halves[i]) for i = 0, 1 before the loop.
reconnect ==
    /\ rc.pc = "none"
    /\ \E i \in {0, 1} :
          /\ halves[i].vconn = "null"
          /\ \A j \in 0 .. i - 1 : halves[j].vconn = "open"
          /\ Reconnect(i)

\* main loop: vconn_recv or vconn_send on a half fails.
connection_dropped ==
    /\ rc.pc = "none"
    /\ \A j \in {0, 1} : halves[j].vconn = "open"
    /\ \E i \in {0, 1} : Reconnect(i)

\* vconn_open returns 0: reconnect returns.
vconn_open_succeeds ==
    /\ rc.pc = "open"
    /\ halves' = [halves EXCEPT ![rc.this].vconn = "open"]
    /\ rc' = [rc EXCEPT !.pc = "none"]
    /\ UNCHANGED reliable
    /\ UNCHANGED <<impl, bufVars, actVars, csVars, chVars, inVars, lockVars,
                   portVars, vlanVars, loopVars, rcuVars, relayVars>>

\* vconn_open fails: fatal in unreliable mode, otherwise sleep(backoff) and
\* the next round of the loop.
vconn_open_fails ==
    /\ rc.pc = "open"
    /\ Len(rc.waits) < MaxFailures
    /\ rc' = IF ~reliable THEN [rc EXCEPT !.pc = "fatal"]
             ELSE [rc EXCEPT !.waits = Append(@, rc.backoff),
                             !.backoff = NextBackoff(@)]
    /\ UNCHANGED <<reliable, halves>>
    /\ UNCHANGED <<impl, bufVars, actVars, csVars, chVars, inVars, lockVars,
                   portVars, vlanVars, loopVars, rcuVars, relayVars>>

-----------------------------------------------------------------------------
(* VLAN tags: OFPAT_SET_DL_VLAN of the user-space switch, OFPAT_SET_VLAN_VID
   and OFPAT_STRIP_VLAN of the kernel datapath.  Values of 16-bit fields are
   written as they read on the wire; htons gives what the host holds. *)

OFP_VLAN_NONE == 65535
VLAN_VID == 4095
MaxVlanActs == 2

swap16(x) == (x % 256) * 256 + x \div 256
htons(le, x) == IF le THEN swap16(x) ELSE x
ntohs(le, x) == htons(le, x)

\* Tags a frame may arrive with: VID 5 alone, with PCP 1, VID 10 with PCP 7
\* and CFI set.
TCIs == {5, 8197, 61450}
VlanIds == {1, 32}
VlanActions ==
    [type : {"SET_VLAN_VID"}, vlan_vid : VlanIds]
    \cup [type : {"STRIP_VLAN"}, vlan_vid : {OFP_VLAN_NONE}]
VlanActionLists ==
    UNION {[1 .. n -> VlanActions] : n \in 0 .. MaxVlanActs}

VlanIdle ==
    /\ veth = <<>> /\ payload_ok = TRUE /\ dl_vlan = OFP_VLAN_NONE
    /\ vlan_todo = <<>> /\ host_le = FALSE

\* flow_extract: dl_vlan is the VID of the outer tag, OFP_VLAN_NONE without.
ExtractedVlan(tags) ==
    IF tags = <<>> THEN OFP_VLAN_NONE ELSE BitAnd(tags[1], VLAN_VID)

VlanAtStart ==
    /\ veth \in {<<>>} \cup {<<t>> : t \in TCIs}
    /\ payload_ok = TRUE
    /\ dl_vlan = ExtractedVlan(veth)
    /\ vlan_todo \in VlanActionLists
    /\ host_le \in BOOLEAN

\* The two bytes after the EtherType, read as a tag control field, are
\* rewritten: the TCI of the outer tag, or the start of the payload when the
\* frame has no tag.
RewriteTci(le, mask, bits) ==
    IF veth = <<>>
    THEN [veth |-> veth, payload_ok |-> FALSE]
    ELSE [veth |-> <<ntohs(le, BitOr(BitAnd(htons(le, veth[1]),
                                            UINT16_MAX - htons(le, mask)),
                                     bits))>> \o Tail(veth),
          payload_ok |-> payload_ok]

\* buffer_push_uninit and memcpy of a vlan_eth_header / __vlan_put_tag
PushTag(tci) == [veth |-> <<tci>> \o veth, payload_ok |-> payload_ok]

\* vlan_pull_tag / the removing branch of modify_vlan: the frame itself says
\* whether there is a tag to remove.
PullTag ==
    [veth |-> IF veth = <<>> THEN veth ELSE Tail(veth),
     payload_ok |-> payload_ok]

\* modify_vlan(buffer, key, a) of user space: new_id is a->arg.vlan_id as it
\* lies in the message, the key is const.
modify_vlan(le, vid) ==
    LET new_id == htons(le, vid)
    IN  IF new_id # OFP_VLAN_NONE
        THEN IF dl_vlan # OFP_VLAN_NONE
             THEN RewriteTci(le, VLAN_VID, htons(le, new_id))
             ELSE PushTag(ntohs(le, new_id))
        ELSE PullTag

\* modify_vlan_tci(skb, key, tci, mask) of the kernel
modify_vlan_tci(le, tci, mask) ==
    IF dl_vlan # OFP_VLAN_NONE
    THEN RewriteTci(le, mask, htons(le, tci))
    ELSE PushTag(tci)

\* case OFPAT_SET_VLAN_VID of execute_setter; case OFPAT_SET_DL_VLAN of the
\* user-space execute_actions with an id other than OFP_VLAN_NONE.
set_vlan_vid ==
    /\ vlan_todo # <<>> /\ Head(vlan_todo).type = "SET_VLAN_VID"
    /\ LET vid == Head(vlan_todo).vlan_vid
           r == IF impl = "switch" THEN modify_vlan(host_le, vid)
                ELSE modify_vlan_tci(host_le, ntohs(host_le, htons(host_le, vid)),
                                     VLAN_VID)
       IN  /\ veth' = r.veth
           /\ payload_ok' = r.payload_ok
           /\ dl_vlan' = IF impl = "switch" THEN dl_vlan
                         ELSE ExtractedVlan(r.veth)
    /\ vlan_todo' = Tail(vlan_todo)
    /\ UNCHANGED <<host_le, impl, bufVars, actVars, csVars, chVars, inVars,
                   lockVars, portVars, secVars, loopVars, rcuVars, relayVars>>

\* case OFPAT_STRIP_VLAN of execute_setter; case OFPAT_SET_DL_VLAN with
\* OFP_VLAN_NONE in user space.
strip_vlan ==
    /\ vlan_todo # <<>> /\ Head(vlan_todo).type = "STRIP_VLAN"
    /\ LET r == IF impl = "switch" THEN modify_vlan(host_le, OFP_VLAN_NONE)
                ELSE PullTag
       IN  /\ veth' = r.veth
           /\ payload_ok' = r.payload_ok
    /\ dl_vlan' = IF impl = "switch" THEN dl_vlan ELSE OFP_VLAN_NONE
    /\ vlan_todo' = Tail(vlan_todo)
    /\ UNCHANGED <<host_le, impl, bufVars, actVars, csVars, chVars, inVars,
                   lockVars, portVars, secVars, loopVars, rcuVars, relayVars>>

-----------------------------------------------------------------------------
(* The main loop of the user-space switch: dp_run receives from every port,
   then remote_run drains every connection, at most 50 messages each. *)

MaxPerPass == 50
MaxPasses == 2
MaxArrivals == 1
Remotes == {1, 2}
LoopPorts == {1, 2}
NoBuffer == [seq |-> 0, short |-> FALSE]

LoopIdle ==
    /\ rxq = [r \in Remotes |-> <<>>]
    /\ netdev = [p \in LoopPorts |-> 0]
    /\ loop = [pc |-> "idle", pass |-> 0, at |-> 0, i |-> 0, buffer |-> NoBuffer]
    /\ events = <<>>
    /\ arrived = [r \in Remotes |-> 0]

\* Messages are numbered in the order their connection received them.
Backlog(n) == [k \in 1 .. n |-> [seq |-> k, short |-> FALSE]]
Backlogs == {MaxPerPass - 1, MaxPerPass + 1}

LoopAtStart ==
    /\ \E n \in Backlogs :
          /\ rxq = [r \in Remotes |-> IF r = 1 THEN Backlog(n) ELSE Backlog(1)]
          /\ arrived = [r \in Remotes |-> IF r = 1 THEN n ELSE 1]
    /\ \E n \in {0, 2} : netdev = [p \in LoopPorts |-> IF p = 1 THEN n ELSE 1]
    /\ loop = [pc |-> "idle", pass |-> 0, at |-> 0, i |-> 0, buffer |-> NoBuffer]
    /\ events = <<>>

Event(kind, who, seq) ==
    [pass |-> loop.pass, kind |-> kind, who |-> who, seq |-> seq]

NotLoop ==
    <<impl, bufVars, actVars, csVars, chVars, inVars, lockVars, portVars,
      secVars, vlanVars, rcuVars, relayVars>>

\* A message reaches the connection of remote r; buffer->size < sizeof *oh
\* for a short one.
arrive ==
    \E r \in Remotes, short \in BOOLEAN :
        /\ arrived[1] + arrived[2] < MaxPerPass + 2 + MaxArrivals
        /\ arrived[r] < MaxPerPass + 1 + MaxArrivals
        /\ r = 2 => arrived[r] < 1 + MaxArrivals
        /\ loop.pass > 0
        /\ arrived' = [arrived EXCEPT ![r] = @ + 1]
        /\ rxq' = [rxq EXCEPT ![r] =
                      Append(@, [seq |-> arrived[r] + 1, short |-> short])]
        /\ UNCHANGED <<netdev, loop, events>>
        /\ UNCHANGED NotLoop

\* dp_run up to the loop over the ports (the sweep is chain_timeout).
dp_run ==
    /\ loop.pc = "idle" /\ loop.pass < MaxPasses
    /\ loop' = [loop EXCEPT !.pc = "ports", !.pass = @ + 1, !.at = 1]
    /\ UNCHANGED <<rxq, netdev, events, arrived>>
    /\ UNCHANGED NotLoop

\* One turn of LIST_FOR_EACH_SAFE over dp->port_list: netdev_recv returns a
\* frame, which goes to fwd_port_input, or EAGAIN.
netdev_recv ==
    /\ loop.pc = "ports"
    /\ IF netdev[loop.at] > 0
       THEN /\ netdev' = [netdev EXCEPT ![loop.at] = @ - 1]
            /\ events' = Append(events, Event("frame", loop.at, 0))
       ELSE UNCHANGED <<netdev, events>>
    /\ loop' = IF loop.at + 1 \in LoopPorts
               THEN [loop EXCEPT !.at = @ + 1]
               ELSE [loop EXCEPT !.pc = "remotes", !.at = 1, !.i = 0]
    /\ UNCHANGED <<rxq, arrived>>
    /\ UNCHANGED NotLoop

\* for (i = 0; i < 50; i++)
NoCap(i) == TRUE
WithinCap(i) == i < MaxPerPass

\* buffer = rconn_recv(r->rconn), a message in hand
rconn_recv ==
    /\ loop.pc = "remotes" /\ loop.buffer = NoBuffer
    /\ WithinCap(loop.i) /\ rxq[loop.at] # <<>>
    /\ loop' = [loop EXCEPT !.buffer = Head(rxq[loop.at])]
    /\ rxq' = [rxq EXCEPT ![loop.at] = Tail(@)]
    /\ events' = Append(events, Event("recv", loop.at, Head(rxq[loop.at]).seq))
    /\ UNCHANGED <<netdev, arrived>>
    /\ UNCHANGED NotLoop

\* The rest of the loop body: fwd_control_input on a message that has a
\* header, a warning otherwise, then buffer_delete and i++.
remote_run_dispatch ==
    /\ loop.pc = "remotes" /\ loop.buffer # NoBuffer
    /\ events' = Append(events,
                        Event(IF loop.buffer.short THEN "short" ELSE "input",
                              loop.at, loop.buffer.seq))
    /\ loop' = [loop EXCEPT !.buffer = NoBuffer, !.i = @ + 1]
    /\ UNCHANGED <<rxq, netdev, arrived>>
    /\ UNCHANGED NotLoop

\* The loop of remote_run ends, on the cap or on an empty connection; dp_run
\* goes on to the next remote or returns.
remote_run_return ==
    /\ loop.pc = "remotes" /\ loop.buffer = NoBuffer
    /\ ~WithinCap(loop.i) \/ rxq[loop.at] = <<>>
    /\ loop' = IF loop.at + 1 \in Remotes
               THEN [loop EXCEPT !.at = @ + 1, !.i = 0]
               ELSE [loop EXCEPT !.pc = "idle", !.at = 0, !.i = 0]
    /\ UNCHANGED <<rxq, netdev, events, arrived>>
    /\ UNCHANGED NotLoop

-----------------------------------------------------------------------------
(* One bucket of the kernel's hash table used by several threads at once:
   a lookup on the receive path, table_hash_insert, table_hash_delete and
   table_hash_timeout, each taken one memory access at a time, and the RCU
   callbacks that flow_deferred_free schedules. *)

HashFlowNames == {"A", "B", "C"}
HashThreads == {"rx", "ins1", "ins2", "del", "sweep"}
Inserters == {"ins1", "ins2"}
Removers == {"del", "sweep"}
MaxLookups == 2

\* A is in the bucket or not when the threads start, ins1 inserts B with A's
\* key, ins2 inserts C with another key of the same bucket; the lookup and
\* the delete are for A's key.
FlowKey(f) == IF f = "C" THEN 2 ELSE 1
WantedKey == FlowKey("A")
InsertedBy(t) == IF t = "ins1" THEN "B" ELSE "C"

Off == [pc |-> "off", flow |-> "NULL", count |-> 0, retval |-> -1, runs |-> 0]
Ready == [Off EXCEPT !.pc = "idle"]

RcuIdle ==
    /\ bucket_flow = "NULL" /\ n_flows = 0 /\ th_lock = "none"
    /\ flow_deleted = {} /\ thr = [t \in HashThreads |-> Off]
    /\ rcu_readers = {} /\ rcu_cbs = {} /\ reclaimed = {}
    /\ scheduled = [f \in HashFlowNames |-> 0] /\ uaf = FALSE

RcuAtStart(running) ==
    /\ bucket_flow \in {"NULL", "A"}
    /\ n_flows = IF bucket_flow = "NULL" THEN 0 ELSE 1
    /\ th_lock = "none"
    /\ flow_deleted = {}
    /\ thr = [t \in HashThreads |-> IF t \in running THEN Ready ELSE Off]
    /\ rcu_readers = {} /\ rcu_cbs = {} /\ reclaimed = {}
    /\ scheduled = [f \in HashFlowNames |-> 0] /\ uaf = FALSE

NotRcu ==
    <<impl, bufVars, actVars, csVars, chVars, inVars, lockVars, portVars,
      secVars, vlanVars, loopVars, relayVars>>

\* Thread t moves to pc with its locals changed as given.
Jump(t, pc_, flow_, count_, retval_) ==
    thr' = [thr EXCEPT ![t] = [@ EXCEPT !.pc = pc_, !.flow = flow_,
                                        !.count = count_, !.retval = retval_]]
Step(t, pc_) == thr' = [thr EXCEPT ![t].pc = pc_]

\* A read or write through a flow pointer.
Deref(f) == uaf' = (uaf \/ f \in reclaimed)
\* memcmp(&flow->key, key, sizeof *key) == 0: anything when the flow is freed.
KeyIs(f, k) == IF f \in reclaimed THEN BOOLEAN ELSE {FlowKey(f) = k}

\* rcu_read_lock() / rcu_read_unlock() by thread t
rcu_read_lock_missing(t) == rcu_readers
rcu_read_lock(t) == rcu_readers \cup {t}
rcu_read_unlock(t) ==
    /\ rcu_readers' = rcu_readers \ {t}
    /\ rcu_cbs' = {[cb EXCEPT !.waiting = @ \ {t}] : cb \in rcu_cbs}

\* flow_deferred_free(flow): call_rcu(&flow->rcu, rcu_callback); the callback
\* runs after every read-side section open now has been left.
flow_deferred_free(f) ==
    /\ rcu_cbs' = rcu_cbs \cup {[flow |-> f, waiting |-> rcu_readers]}
    /\ scheduled' = [scheduled EXCEPT ![f] = @ + 1]

\* rcu_callback: flow_free(flow) once the grace period is over.
rcu_callback ==
    \E cb \in rcu_cbs :
        /\ cb.waiting = {}
        /\ reclaimed' = reclaimed \cup {cb.flow}
        /\ rcu_cbs' = rcu_cbs \ {cb}
        /\ UNCHANGED <<bucket_flow, n_flows, th_lock, flow_deleted, thr,
                       rcu_readers, scheduled, uaf>>
        /\ UNCHANGED NotRcu

\* flow_del(flow): sets the deleted flag and says whether this call set it.
flow_del_unchecked(f) == TRUE
flow_del(f) == f \notin flow_deleted

\* ---- the receive path: dp_dev_xmit, fwd_port_input,
\* ---- run_flow_through_tables, table_hash_lookup
lookup_enter ==
    /\ thr["rx"].pc = "idle" /\ thr["rx"].runs < MaxLookups
    /\ rcu_readers' = rcu_read_lock("rx")
    /\ Step("rx", "read")
    /\ UNCHANGED <<bucket_flow, n_flows, th_lock, flow_deleted, rcu_cbs,
                   reclaimed, scheduled, uaf>>
    /\ UNCHANGED NotRcu

\* struct sw_flow *flow = *find_bucket(swt, key);
lookup_read ==
    /\ thr["rx"].pc = "read"
    /\ Jump("rx", IF bucket_flow = "NULL" THEN "leave" ELSE "cmp", bucket_flow,
            0, -1)
    /\ UNCHANGED <<bucket_flow, n_flows, th_lock, flow_deleted, rcu_readers,
                   rcu_cbs, reclaimed, scheduled, uaf>>
    /\ UNCHANGED NotRcu

\* return flow && !memcmp(&flow->key, key, sizeof *key) ? flow : NULL;
lookup_cmp ==
    /\ thr["rx"].pc = "cmp"
    /\ Deref(thr["rx"].flow)
    /\ \E eq \in KeyIs(thr["rx"].flow, WantedKey) :
          Step("rx", IF eq THEN "use" ELSE "leave")
    /\ UNCHANGED <<bucket_flow, n_flows, th_lock, flow_deleted, rcu_readers,
                   rcu_cbs, reclaimed, scheduled>>
    /\ UNCHANGED NotRcu

\* rcu_dereference(flow->sf_acts); flow_used(flow, skb); execute_actions(...)
lookup_use ==
    /\ thr["rx"].pc = "use"
    /\ Deref(thr["rx"].flow)
    /\ Step("rx", "leave")
    /\ UNCHANGED <<bucket_flow, n_flows, th_lock, flow_deleted, rcu_readers,
                   rcu_cbs, reclaimed, scheduled>>
    /\ UNCHANGED NotRcu

lookup_leave ==
    /\ thr["rx"].pc = "leave"
    /\ rcu_read_unlock("rx")
    /\ thr' = [thr EXCEPT !["rx"] = [@ EXCEPT !.pc = "idle", !.runs = @ + 1]]
    /\ UNCHANGED <<bucket_flow, n_flows, th_lock, flow_deleted, reclaimed,
                   scheduled, uaf>>
    /\ UNCHANGED NotRcu

\* ---- table_hash_insert of a flow without wildcards
\* spin_lock_irqsave(&th->lock, flags): interrupts are off until the unlock,
\* which holds back the grace period like a read-side section.
lock_not_taken == TRUE
lock_is_free == th_lock = "none"
insert_lock ==
    \E t \in Inserters :
        /\ thr[t].pc = "idle" /\ lock_is_free
        /\ th_lock' = t
        /\ rcu_readers' = rcu_readers \cup {t}
        /\ Step(t, "read")
        /\ UNCHANGED <<bucket_flow, n_flows, flow_deleted, rcu_cbs, reclaimed,
                       scheduled, uaf>>
        /\ UNCHANGED NotRcu

\* bucket = find_bucket(swt, &flow->key); if (*bucket == NULL) ... else
\* old_flow = *bucket
insert_read ==
    \E t \in Inserters :
        /\ thr[t].pc = "read"
        /\ Jump(t, IF bucket_flow = "NULL" THEN "inc" ELSE "cmp", bucket_flow,
                0, -1)
        /\ UNCHANGED <<bucket_flow, n_flows, th_lock, flow_deleted,
                       rcu_readers, rcu_cbs, reclaimed, scheduled, uaf>>
        /\ UNCHANGED NotRcu

\* atomic_inc(&th->n_flows);
insert_inc ==
    \E t \in Inserters :
        /\ thr[t].pc = "inc"
        /\ n_flows' = n_flows + 1
        /\ Step(t, "assign")
        /\ UNCHANGED <<bucket_flow, th_lock, flow_deleted, rcu_readers,
                       rcu_cbs, reclaimed, scheduled, uaf>>
        /\ UNCHANGED NotRcu

\* rcu_assign_pointer(*bucket, flow); in either branch
insert_assign ==
    \E t \in Inserters :
        /\ thr[t].pc = "assign"
        /\ bucket_flow' = InsertedBy(t)
        /\ IF thr[t].flow = "NULL"
           THEN Jump(t, "unlock", "NULL", 0, 1)
           ELSE Step(t, "free")
        /\ UNCHANGED <<n_flows, th_lock, flow_deleted, rcu_readers, rcu_cbs,
                       reclaimed, scheduled, uaf>>
        /\ UNCHANGED NotRcu

\* !memcmp(&old_flow->key, &flow->key, sizeof flow->key)
insert_cmp ==
    \E t \in Inserters :
        /\ thr[t].pc = "cmp"
        /\ Deref(thr[t].flow)
        /\ \E eq \in KeyIs(thr[t].flow, FlowKey(InsertedBy(t))) :
              IF eq THEN Step(t, "flow_del")
              ELSE Jump(t, "unlock", thr[t].flow, 0, 0)
        /\ UNCHANGED <<bucket_flow, n_flows, th_lock, flow_deleted,
                       rcu_readers, rcu_cbs, reclaimed, scheduled>>
        /\ UNCHANGED NotRcu

\* && flow_del(old_flow)
insert_flow_del ==
    \E t \in Inserters :
        /\ thr[t].pc = "flow_del"
        /\ Deref(thr[t].flow)
        /\ IF flow_del(thr[t].flow)
           THEN /\ flow_deleted' = flow_deleted \cup {thr[t].flow}
                /\ Step(t, "assign")
           ELSE /\ UNCHANGED flow_deleted
                /\ Jump(t, "unlock", thr[t].flow, 0, 0)
        /\ UNCHANGED <<bucket_flow, n_flows, th_lock, rcu_readers, rcu_cbs,
                       reclaimed, scheduled>>
        /\ UNCHANGED NotRcu

\* flow_deferred_free(old_flow); retval = 1;
insert_free ==
    \E t \in Inserters :
        /\ thr[t].pc = "free"
        /\ flow_deferred_free(thr[t].flow)
        /\ Jump(t, "unlock", thr[t].flow, 0, 1)
        /\ UNCHANGED <<bucket_flow, n_flows, th_lock, flow_deleted,
                       rcu_readers, reclaimed, uaf>>
        /\ UNCHANGED NotRcu

\* spin_unlock_irqrestore(&th->lock, flags); return retval;
insert_unlock ==
    \E t \in Inserters :
        /\ thr[t].pc = "unlock"
        /\ th_lock' = "none"
        /\ rcu_read_unlock(t)
        /\ Step(t, "done")
        /\ UNCHANGED <<bucket_flow, n_flows, flow_deleted, reclaimed,
                       scheduled, uaf>>
        /\ UNCHANGED NotRcu

\* ---- table_hash_delete with an exact key and table_hash_timeout, both
\* ---- called with rcu_read_lock held and without th->lock
remover_enter ==
    \E t \in Removers :
        /\ thr[t].pc = "idle"
        /\ rcu_readers' = rcu_read_lock(t)
        /\ Step(t, "read")
        /\ UNCHANGED <<bucket_flow, n_flows, th_lock, flow_deleted, rcu_cbs,
                       reclaimed, scheduled, uaf>>
        /\ UNCHANGED NotRcu

\* struct sw_flow *flow = *bucket;
remover_read ==
    \E t \in Removers :
        /\ thr[t].pc = "read"
        /\ Jump(t, IF bucket_flow = "NULL" THEN "sub"
                   ELSE IF t = "del" THEN "cmp" ELSE "timeout",
                bucket_flow, 0, -1)
        /\ UNCHANGED <<bucket_flow, n_flows, th_lock, flow_deleted,
                       rcu_readers, rcu_cbs, reclaimed, scheduled, uaf>>
        /\ UNCHANGED NotRcu

\* if (flow && !memcmp(&flow->key, key, sizeof *key))
delete_cmp ==
    /\ thr["del"].pc = "cmp"
    /\ Deref(thr["del"].flow)
    /\ \E eq \in KeyIs(thr["del"].flow, WantedKey) :
          Step("del", IF eq THEN "flow_del" ELSE "sub")
    /\ UNCHANGED <<bucket_flow, n_flows, th_lock, flow_deleted, rcu_readers,
                   rcu_cbs, reclaimed, scheduled>>
    /\ UNCHANGED NotRcu

\* if (flow && flow_timeout(flow)): the flow has expired or has not.
sweep_timeout ==
    /\ thr["sweep"].pc = "timeout"
    /\ Deref(thr["sweep"].flow)
    /\ \E timed_out \in BOOLEAN :
          Step("sweep", IF timed_out THEN "flow_del" ELSE "sub")
    /\ UNCHANGED <<bucket_flow, n_flows, th_lock, flow_deleted, rcu_readers,
                   rcu_cbs, reclaimed, scheduled>>
    /\ UNCHANGED NotRcu

\* do_delete: if (flow_del(flow)) {
do_delete_flow_del ==
    \E t \in Removers :
        /\ thr[t].pc = "flow_del"
        /\ Deref(thr[t].flow)
        /\ IF flow_del(thr[t].flow)
           THEN /\ flow_deleted' = flow_deleted \cup {thr[t].flow}
                /\ Step(t, "assign")
           ELSE /\ UNCHANGED flow_deleted
                /\ Step(t, IF t = "sweep" THEN "expired" ELSE "sub")
        /\ UNCHANGED <<bucket_flow, n_flows, th_lock, rcu_readers, rcu_cbs,
                       reclaimed, scheduled>>
        /\ UNCHANGED NotRcu

\* rcu_assign_pointer(*bucket, NULL);
do_delete_assign ==
    \E t \in Removers :
        /\ thr[t].pc = "assign"
        /\ bucket_flow' = "NULL"
        /\ Step(t, "free")
        /\ UNCHANGED <<n_flows, th_lock, flow_deleted, rcu_readers, rcu_cbs,
                       reclaimed, scheduled, uaf>>
        /\ UNCHANGED NotRcu

\* flow_deferred_free(flow); return 1; }
do_delete_free ==
    \E t \in Removers :
        /\ thr[t].pc = "free"
        /\ flow_deferred_free(thr[t].flow)
        /\ Jump(t, IF t = "sweep" THEN "expired" ELSE "sub", thr[t].flow, 1,
                -1)
        /\ UNCHANGED <<bucket_flow, n_flows, th_lock, flow_deleted,
                       rcu_readers, reclaimed, uaf>>
        /\ UNCHANGED NotRcu

\* if (dp->hello_flags & OFP_CHELLO_SEND_FLOW_EXP)
\*     dp_send_flow_expired(dp, flow);
sweep_expired ==
    /\ thr["sweep"].pc = "expired"
    /\ \E send \in BOOLEAN :
          IF send THEN Deref(thr["sweep"].flow) ELSE UNCHANGED uaf
    /\ Step("sweep", "sub")
    /\ UNCHANGED <<bucket_flow, n_flows, th_lock, flow_deleted, rcu_readers,
                   rcu_cbs, reclaimed, scheduled>>
    /\ UNCHANGED NotRcu

\* if (count) atomic_sub(count, &th->n_flows); return count;
remover_sub ==
    \E t \in Removers :
        /\ thr[t].pc = "sub"
        /\ n_flows' = n_flows - thr[t].count
        /\ Jump(t, "leave", thr[t].flow, thr[t].count, thr[t].count)
        /\ UNCHANGED <<bucket_flow, th_lock, flow_deleted, rcu_readers,
                       rcu_cbs, reclaimed, scheduled, uaf>>
        /\ UNCHANGED NotRcu

remover_leave ==
    \E t \in Removers :
        /\ thr[t].pc = "leave"
        /\ rcu_read_unlock(t)
        /\ Step(t, "done")
        /\ UNCHANGED <<bucket_flow, n_flows, th_lock, flow_deleted, reclaimed,
                       scheduled, uaf>>
        /\ UNCHANGED NotRcu

-----------------------------------------------------------------------------
(* The secure channel's relay between its two connections *)

MaxMsgs == 2         \* messages arriving on one connection
MaxRelayErrors == 2  \* failed vconn_recv and vconn_send calls
NoMsg == 0           \* rxbuf = NULL
HalfIds == {0, 1}
Other(i) == 1 - i

NoOp == [op |-> "none", side |-> 0, retval |-> "none", msg |-> NoMsg]

RelayStart ==
    /\ rxbuf = [i \in HalfIds |-> NoMsg]
    /\ revents = [i \in HalfIds |-> {"POLLIN", "POLLOUT"}]
    /\ relay = [pc |-> "poll", i |-> 0]
    /\ relayed = [recvd |-> [i \in HalfIds |-> 0],
                  forwarded |-> [i \in HalfIds |-> <<>>],
                  dropped |-> [i \in HalfIds |-> {}],
                  conns |-> [i \in HalfIds |-> 1],
                  errors |-> 0, last |-> NoOp]

\* secchan not under study.
RelayIdle == RelayStart

\* main as it enters its loop: both reconnect calls have returned, each with
\* its connection open and revents = POLLIN | POLLOUT.
RelayAtStart ==
    /\ reliable \in BOOLEAN
    /\ halves = [i \in HalfIds |-> [vconn |-> "open"]]
    /\ rc = NoCall
    /\ RelayStart

NotRelay ==
    <<impl, bufVars, actVars, csVars, chVars, inVars, lockVars, portVars,
      secVars, vlanVars, loopVars, rcuVars>>

\* What poll can report for half i: the events vconn_prepoll asked for
\* (WANT_RECV when the half's slot is empty, WANT_SEND when the peer's is
\* full), or POLLERR, which main turns into POLLIN | POLLOUT.
Wanted(i) ==
    (IF rxbuf[i] = NoMsg THEN {"POLLIN"} ELSE {})
        \cup (IF rxbuf[Other(i)] # NoMsg THEN {"POLLOUT"} ELSE {})
Reported(i) == SUBSET Wanted(i) \cup {{"POLLIN", "POLLOUT"}}

\* The top of the loop: prepoll, poll, postpoll.
poll ==
    /\ relay.pc = "poll"
    /\ \E r \in [HalfIds -> SUBSET {"POLLIN", "POLLOUT"}] :
          /\ \A i \in HalfIds : r[i] \in Reported(i)
          /\ revents' = r
    /\ relay' = [pc |-> "recv", i |-> 0]
    /\ UNCHANGED <<rxbuf, relayed>>
    /\ UNCHANGED NotRelay

\* reconnect(this) on an open connection, as the relay sees it: fatal in
\* unreliable mode; otherwise the connection is closed, the half's rxbuf is
\* deleted, and the call returns once vconn_open has succeeded.  r is the
\* history with the failed call already recorded.
RelayReconnect(this, r) ==
    IF ~reliable
    THEN /\ relay' = [relay EXCEPT !.pc = "fatal"]
         /\ relayed' = r
         /\ UNCHANGED <<rxbuf, revents>>
    ELSE /\ rxbuf' = [rxbuf EXCEPT ![this] = NoMsg]
         /\ revents' = [revents EXCEPT ![this] = {"POLLIN", "POLLOUT"}]
         /\ relay' = [pc |-> "poll", i |-> 0]
         /\ relayed' =
               [r EXCEPT !.conns[this] = @ + 1,
                         !.dropped[this] =
                             @ \cup ({rxbuf[this]} \ {NoMsg})]

\* revents & POLLIN && !this->rxbuf
CanRecvAnyway(this) == "POLLIN" \in revents[this]
CanRecv(this) == "POLLIN" \in revents[this] /\ rxbuf[this] = NoMsg

\* The first half of the loop body for halves[i]: vconn_recv returns a
\* message, EAGAIN, or an error that makes main reconnect the half and leave
\* the for loop.
relay_recv ==
    /\ relay.pc = "recv"
    /\ LET this == relay.i IN
       IF ~CanRecv(this)
       THEN /\ relay' = [relay EXCEPT !.pc = "send"]
            /\ UNCHANGED <<rxbuf, revents, relayed>>
       ELSE \/ /\ relayed.recvd[this] < MaxMsgs
               /\ LET m == relayed.recvd[this] + 1 IN
                  /\ rxbuf' = [rxbuf EXCEPT ![this] = m]
                  /\ relayed' =
                        [relayed EXCEPT
                            !.recvd[this] = m,
                            !.last = [op |-> "recv", side |-> this,
                                      retval |-> "0", msg |-> m]]
               /\ relay' = [relay EXCEPT !.pc = "send"]
               /\ UNCHANGED revents
            \/ /\ rxbuf' = [rxbuf EXCEPT ![this] = NoMsg]
               /\ relayed' =
                     [relayed EXCEPT
                         !.last = [op |-> "recv", side |-> this,
                                   retval |-> "EAGAIN", msg |-> NoMsg]]
               /\ relay' = [relay EXCEPT !.pc = "send"]
               /\ UNCHANGED revents
            \/ /\ relayed.errors < MaxRelayErrors
               /\ RelayReconnect(this,
                     [relayed EXCEPT
                         !.errors = @ + 1,
                         !.last = [op |-> "recv", side |-> this,
                                   retval |-> "error", msg |-> NoMsg]])
    /\ UNCHANGED NotRelay

\* if (!retval) this->rxbuf = NULL;
ClearedAlways(retval) == TRUE
ClearedAfter(retval) == retval = "0"

\* The loop body's step to the next half, or back to the top of the loop.
NextHalf == IF relay.i = 0 THEN [pc |-> "recv", i |-> 1]
            ELSE [pc |-> "poll", i |-> 0]

\* The second half of the loop body: vconn_send on the peer's connection
\* takes the message (0), would block (EAGAIN), or fails, and then main
\* reconnects the peer and leaves the for loop.
relay_send ==
    /\ relay.pc = "send"
    /\ LET this == relay.i
           peer == Other(relay.i)
       IN
       IF ~("POLLOUT" \in revents[peer] /\ rxbuf[this] # NoMsg)
       THEN /\ relay' = NextHalf
            /\ UNCHANGED <<rxbuf, revents, relayed>>
       ELSE \/ \E retval \in {"0", "EAGAIN"} :
                  /\ rxbuf' = IF ClearedAfter(retval)
                              THEN [rxbuf EXCEPT ![this] = NoMsg]
                              ELSE rxbuf
                  /\ relayed' =
                        [relayed EXCEPT
                            !.forwarded[this] =
                                IF retval = "0" THEN Append(@, rxbuf[this])
                                ELSE @,
                            !.last = [op |-> "send", side |-> peer,
                                      retval |-> retval,
                                      msg |-> rxbuf[this]]]
                  /\ relay' = NextHalf
                  /\ UNCHANGED revents
            \/ /\ relayed.errors < MaxRelayErrors
               /\ RelayReconnect(peer,
                     [relayed EXCEPT
                         !.errors = @ + 1,
                         !.last = [op |-> "send", side |-> peer,
                                   retval |-> "error",
                                   msg |-> rxbuf[this]]])
    /\ UNCHANGED NotRelay

-----------------------------------------------------------------------------
(* Specifications, one per subsystem *)

vars ==
    <<impl, bufVars, actVars, csVars, chVars, inVars, lockVars, portVars,
      secVars, vlanVars, loopVars, rcuVars, relayVars>>

InitBuffers ==
    impl = "switch" /\ BuffersAtStart /\ PortsIdle /\ SecchanIdle /\ VlanIdle /\ LoopIdle /\ RcuIdle /\ RelayIdle /\ ActionsIdle /\ CsumIdle /\ ChainAtStart

NextBuffers == save_buffer \/ retrieve_buffer \/ discard_buffer \/ Tick

SpecBuffers == InitBuffers /\ [][NextBuffers]_vars

\* The kernel's two workers on the buffer cache.
InitWorkers ==
    impl = "datapath" /\ BuffersAtStart /\ PortsIdle /\ SecchanIdle /\ VlanIdle /\ LoopIdle /\ RcuIdle /\ RelayIdle /\ ActionsIdle /\ CsumIdle /\ ChainAtStart

NextWorkers ==
    \/ fwd_save_skb_lock \/ fwd_save_skb_index \/ fwd_save_skb_check
    \/ fwd_save_skb_install \/ fwd_save_skb_unlock \/ fwd_save_skb_return
    \/ retrieve_skb_lock \/ retrieve_skb_read \/ retrieve_skb_clear
    \/ retrieve_skb_unlock \/ retrieve_skb_return
    \/ discard_skb_lock \/ discard_skb_read \/ discard_skb_clear
    \/ discard_skb_unlock \/ discard_skb_return
    \/ fwd_discard_all_lock \/ fwd_discard_all_read \/ fwd_discard_all_clear
    \/ fwd_discard_all_unlock \/ fwd_discard_all_free
    \/ Tick

SpecWorkers == InitWorkers /\ [][NextWorkers]_vars

InitActions == ActionsAtStart /\ BuffersAtStart /\ PortsIdle /\ SecchanIdle /\ VlanIdle /\ LoopIdle /\ RcuIdle /\ RelayIdle /\ CsumIdle /\ ChainAtStart

NextActions == execute_actions

SpecActions == InitActions /\ [][NextActions]_vars

\* flood on every port list.
InitFlood ==
    /\ impl = "switch" /\ FloodAtStart /\ BuffersAtStart /\ CsumIdle
    /\ ChainAtStart /\ SecchanIdle /\ VlanIdle /\ LoopIdle /\ RcuIdle /\ RelayIdle

NextFlood == flood

\* secchan's connections, in reliable and in unreliable mode.
InitSecchan ==
    /\ impl = "switch" /\ BuffersAtStart /\ PortsIdle /\ ActionsIdle /\ CsumIdle
    /\ ChainAtStart /\ SecchanAtStart /\ VlanIdle /\ LoopIdle /\ RcuIdle /\ RelayIdle

NextSecchan ==
    reconnect \/ connection_dropped \/ vconn_open_succeeds \/ vconn_open_fails

SpecSecchan == InitSecchan /\ [][NextSecchan]_vars

SpecFlood == InitFlood /\ [][NextFlood]_vars

\* The interpreter on the action lists of unvalidated messages.
InitMessageActions ==
    /\ impl \in Impls
    /\ acts \in MessageActionLists
    /\ pc = "start"
    /\ input \in InputFrames
    /\ heap = <<input>>
    /\ sent = <<>>
    /\ clones = 0
    /\ BuffersAtStart /\ PortsIdle /\ SecchanIdle /\ VlanIdle /\ LoopIdle /\ RcuIdle /\ RelayIdle /\ CsumIdle /\ ChainAtStart

NextMessageActions == execute_actions

SpecMessageActions == InitMessageActions /\ [][NextMessageActions]_vars

InitCsum ==
    impl = "switch" /\ CsumAtStart /\ BuffersAtStart /\ PortsIdle /\ SecchanIdle /\ VlanIdle /\ LoopIdle /\ RcuIdle /\ RelayIdle /\ ActionsIdle /\ ChainAtStart

NextCsum == modify_th \/ modify_nh

SpecCsum == InitCsum /\ [][NextCsum]_vars

\* Rewrites of UDP packets in both builds.
InitUdp ==
    /\ impl \in Impls /\ UdpAtStart /\ BuffersAtStart /\ PortsIdle
    /\ SecchanIdle /\ VlanIdle /\ LoopIdle /\ RcuIdle /\ RelayIdle /\ ActionsIdle /\ ChainAtStart

NextUdp == modify_th_udp \/ modify_nh_udp

SpecUdp == InitUdp /\ [][NextUdp]_vars

\* Action lists of VLAN actions on tagged and untagged frames, both builds.
InitVlan ==
    /\ impl \in Impls /\ VlanAtStart /\ BuffersAtStart /\ PortsIdle /\ LoopIdle /\ RcuIdle /\ RelayIdle
    /\ SecchanIdle /\ ActionsIdle /\ CsumIdle /\ ChainAtStart

NextVlan == set_vlan_vid \/ strip_vlan

SpecVlan == InitVlan /\ [][NextVlan]_vars

\* Passes of the main loop over two ports and two connections.
InitLoop ==
    /\ impl = "switch" /\ LoopAtStart /\ BuffersAtStart /\ PortsIdle /\ RcuIdle /\ RelayIdle
    /\ SecchanIdle /\ VlanIdle /\ ActionsIdle /\ CsumIdle /\ ChainAtStart

NextLoop ==
    \/ arrive \/ dp_run \/ netdev_recv \/ rconn_recv \/ remote_run_dispatch
    \/ remote_run_return

SpecLoop == InitLoop /\ [][NextLoop]_vars

\* A lookup racing with one insert, the delete and the sweep.
InitRcu ==
    /\ impl = "datapath" /\ RcuAtStart({"rx", "ins1", "del", "sweep"})
    /\ BuffersAtStart /\ PortsIdle /\ SecchanIdle /\ VlanIdle /\ LoopIdle /\ RelayIdle
    /\ ActionsIdle /\ CsumIdle /\ ChainAtStart

NextRemovers ==
    \/ insert_lock \/ insert_read \/ insert_inc \/ insert_assign
    \/ insert_cmp \/ insert_flow_del \/ insert_free \/ insert_unlock
    \/ remover_enter \/ remover_read \/ delete_cmp \/ sweep_timeout
    \/ do_delete_flow_del \/ do_delete_assign \/ do_delete_free
    \/ sweep_expired \/ remover_sub \/ remover_leave \/ rcu_callback

NextRcu ==
    \/ lookup_enter \/ lookup_read \/ lookup_cmp \/ lookup_use
    \/ lookup_leave \/ NextRemovers

SpecRcu == InitRcu /\ [][NextRcu]_vars

\* Two inserts, the delete and the sweep on the one bucket.
InitRace ==
    /\ impl = "datapath" /\ RcuAtStart({"ins1", "ins2", "del", "sweep"})
    /\ BuffersAtStart /\ PortsIdle /\ SecchanIdle /\ VlanIdle /\ LoopIdle /\ RelayIdle
    /\ ActionsIdle /\ CsumIdle /\ ChainAtStart

SpecRace == InitRace /\ [][NextRemovers]_vars

\* secchan's main loop with both connections open, in either mode.
InitRelay ==
    /\ impl = "switch" /\ RelayAtStart /\ BuffersAtStart /\ PortsIdle
    /\ VlanIdle /\ LoopIdle /\ RcuIdle /\ ActionsIdle /\ CsumIdle
    /\ ChainAtStart

NextRelay == poll \/ relay_recv \/ relay_send

SpecRelay == InitRelay /\ [][NextRelay]_vars

InitChain ==
    impl \in Impls /\ ChainAtStart /\ BuffersAtStart /\ PortsIdle /\ SecchanIdle /\ VlanIdle /\ LoopIdle /\ RcuIdle /\ RelayIdle /\ ActionsIdle /\ CsumIdle

NextChain == add_flow \/ delete_flow \/ sweep \/ lookup

SpecChain == InitChain /\ [][NextChain]_vars

NextSweep == add_flow \/ sweep \/ recv_set_config \/ timer

SpecSweep == InitChain /\ [][NextSweep]_vars

NextFlowMod == save_buffer \/ recv_flow

NextRules == add_rule \/ delete_flow \/ lookup

SpecRules == InitChain /\ [][NextRules]_vars

NextModify == add_mod_rule \/ mod_flow \/ timer

SpecModify == InitChain /\ [][NextModify]_vars

NextFull == save_buffer \/ add_flow_full

SpecFull == InitChain /\ [][NextFull]_vars

NextLong == save_buffer \/ add_long_flow

SpecLong == InitChain /\ [][NextLong]_vars

SpecFlowMod == InitChain /\ [][NextFlowMod]_vars

NextPacketOut == save_buffer \/ recv_packet_out \/ Tick

SpecPacketOut == InitChain /\ [][NextPacketOut]_vars

InitControl ==
    /\ impl \in Impls /\ BuffersAtStart /\ PortsIdle /\ SecchanIdle /\ VlanIdle /\ LoopIdle /\ RcuIdle /\ RelayIdle /\ ActionsIdle /\ CsumIdle
    /\ hash2 = <<EmptyTable, EmptyTable>>
    /\ linear = <<>>
    /\ jiffies = 0
    /\ last_timeout = 0
    /\ send_flow_exp = FALSE
    /\ n_alloc = 0
    /\ expired = <<>>
    /\ chlast = ChLast("none")
    /\ miss_send_len = OFP_DEFAULT_MISS_SEND_LEN
    /\ packet_ins = <<>>
    /\ ControlAtStart

NextControl == fwd_control_input

SpecControl == InitControl /\ [][NextControl]_vars

NextInput == add_input_rule \/ fwd_port_input \/ recv_set_config

SpecInput == InitChain /\ [][NextInput]_vars

-----------------------------------------------------------------------------
(* Claims about the buffer cache *)

SlotOf(id) == id % N_PKT_BUFFERS
Buffered(p) == ids[p] # UINT32_MAX

\* Successful saves into packet p's slot after p was saved.
Reuses(p) ==
    Cardinality({q \in DOMAIN ids :
                    q > p /\ Buffered(q) /\ SlotOf(ids[q]) = SlotOf(ids[p])})

CookiePeriod == Pow2(PKT_COOKIE_BITS) - 1

\* C2: a packet saved under an id is handed out by retrieve at most once; a
\* retrieve that returns a packet returns the one saved under that id and
\* clears the slot; and once retrieve(id) has run for the id of the packet
\* last saved in a slot, that packet has left the cache (handed out by this
\* or an earlier retrieve, or discarded), so a later retrieve returns nothing.
C2_RetrieveAtMostOnce ==
    /\ twice = {}
    /\ last.op = "retrieve" =>
          /\ last.ret # NULL =>
                /\ ids[last.ret] = last.id
                /\ last.ret \in out
                /\ buffers[SlotOf(last.id)].buffer = NULL
          /\ \A p \in DOMAIN ids :
                (Buffered(p) /\ ids[p] = last.id /\ Reuses(p) = 0) =>
                    /\ p \in out \cup discarded
                    /\ last.ret \in {NULL, p}

\* C2 witness: a second retrieve of an id whose packet was already handed
\* out, with the slot not reused since, returned nothing.
C2_Witness ==
    /\ last.op = "retrieve" /\ last.ret = NULL
    /\ \E p \in out : ids[p] = last.id /\ Reuses(p) = 0

\* Packets handed out earlier under the id the last retrieve named.
StaleFor(id, ret) == {p \in out \ {ret} : ids[p] = id}

\* C3 as stated: once id k has been issued and retrieved, retrieve(k) returns
\* nothing after any number >= 1 of later successful saves into its slot.
C3_ReplayRejectedAlways ==
    last.op = "retrieve" =>
        \A p \in StaleFor(last.id, last.ret) :
            Reuses(p) >= 1 => last.ret = NULL

\* C3 amended: retrieve(k) of an already retrieved id returns nothing after
\* r >= 1 later successful saves into its slot unless r is a multiple of the
\* cookie period 2^PKT_COOKIE_BITS - 1 (when the slot's cookie equals k's).
C3_ReplayRejectedWithinPeriod ==
    last.op = "retrieve" =>
        \A p \in StaleFor(last.id, last.ret) :
            (Reuses(p) >= 1 /\ Reuses(p) % CookiePeriod # 0) => last.ret = NULL

\* C3 witness: a stale id was replayed while its slot held a later packet,
\* and nothing was handed out.
C3_Witness ==
    /\ last.op = "retrieve" /\ last.ret = NULL
    /\ buffers[SlotOf(last.id)].buffer # NULL
    /\ \E p \in StaleFor(last.id, last.ret) :
            Reuses(p) >= 1 /\ Reuses(p) % CookiePeriod # 0

-----------------------------------------------------------------------------
(* Claims about the action interpreter *)

OutputIdx(as) == {i \in DOMAIN as : as[i].type = OFPAT_OUTPUT}
NumOutputs(as) == Cardinality(OutputIdx(as))

\* The i-th smallest element of a set of indices.
Nth(S, k) == CHOOSE i \in S : Cardinality({j \in S : j <= i}) = k

\* The frame an OUTPUT at position i must transmit: the input with exactly the
\* rewrites at positions before i applied, in order.
RECURSIVE RewrittenBefore(_, _, _, _)
RewrittenBefore(frame, as, j, i) ==
    IF j >= i THEN frame
    ELSE RewrittenBefore(execute_setter(frame, as[j]), as, j + 1, i)

\* C4 as stated: an action list with exactly one OUTPUT, at any position, is
\* executed without cloning the packet.
\* It fails whenever a rewrite follows the OUTPUT: the next loop iteration
\* sends a clone; only an OUTPUT in last position goes out uncloned.
C4_SingleOutputNeverClones ==
    (pc = "done" /\ NumOutputs(acts) = 1) => clones = 0

\* C5: a list with k OUTPUT actions transmits k packets, to the OUTPUTs' ports
\* in order; each transmitted packet carries exactly the rewrites that precede
\* its OUTPUT, and later rewrites do not alter it.  A list of two OUTPUTs and
\* nothing else clones once and sends the same contents twice.
C5_EachOutputSeesPrecedingRewrites ==
    pc = "done" =>
        /\ Len(sent) = NumOutputs(acts)
        /\ \A k \in DOMAIN sent :
              LET i == Nth(OutputIdx(acts), k)
              IN  /\ sent[k].port = acts[i].port
                  /\ heap[sent[k].blk] = RewrittenBefore(input, acts, 1, i)
        /\ (Len(acts) = 2 /\ NumOutputs(acts) = 2) =>
              /\ clones = 1
              /\ heap[sent[1].blk] = input
              /\ heap[sent[2].blk] = input

-----------------------------------------------------------------------------
(* Claims about the checksum fix-up *)

\* C7: after a port or address rewrite the stored checksum equals the Internet
\* checksum recomputed from scratch over the modified data, end-around carries
\* included.  It fails when ~HC + ~m + m' = 0x1FFFF: the single fold of
\* recalc_csum16 drops the second carry.
C7_IncrementalEqualsRecomputed ==
    cspc = "done" => csum = InternetChecksum(rest, field)


-----------------------------------------------------------------------------
(* Classification, installation and ageing of flows *)

\* C1: a successful chain_lookup(p) returns an installed flow whose key
\* matches p under the one-sided rule, and no table earlier in the chain
\* holds an entry that matches p.
C1_LookupFirstMatchingTable ==
    (chlast.op = "lookup" /\ chlast.flow # NoFlow) =>
        /\ chlast.flow \in Installed(hash2, linear)
        /\ flow_matches_1wild(chlast.key, chlast.flow.key)
        /\ chlast.table = 1 =>
              \A f \in HashFlows(hash2) : ~flow_matches_1wild(chlast.key, f.key)

\* The outputs that loop: to the table, to nowhere, to the ingress port.
LoopingAction(f) ==
    \E i \in DOMAIN f.actions :
        /\ f.actions[i].type = OFPAT_OUTPUT
        /\ f.actions[i].port \in {OFPP_TABLE, OFPP_NONE, f.key.in_port}

\* C6: after any sequence of FLOW_MOD messages (ADD or MODIFY) no installed
\* flow carries an OUTPUT to TABLE, to NONE or to its match's ingress port.
C6_NoLoopingFlowInstalled ==
    \A f \in Installed(hash2, linear) : ~LoopingAction(f)

IdleExpiryHolds(f, t) ==
    f.idle_timeout # OFP_FLOW_PERMANENT /\ t > f.used + f.idle_timeout
HardExpiryHolds(f, t) ==
    f.hard_timeout # OFP_FLOW_PERMANENT /\ t > f.init_time + f.hard_timeout
ExpiryHolds(f, t) == IdleExpiryHolds(f, t) \/ HardExpiryHolds(f, t)
Times(id, seq) == Cardinality({i \in DOMAIN seq : seq[i] = id})

\* C8: the sweep emits exactly one FLOW_EXPIRED for an idle-expired flow when
\* SEND_FLOW_EXP is set and none when it is not; no flow ever gets more than
\* one, and none is emitted for a flow the sweep did not remove.
C8_FlowExpiredOnceIffConfigured ==
    /\ \A i \in DOMAIN expired : Times(expired[i], expired) = 1
    /\ \A f \in Installed(hash2, linear) : Times(f.id, expired) = 0
    /\ chlast.op = "timeout" =>
          \A f \in Installed(hash2, linear) \cup chlast.removed :
              IdleExpiryHolds(f, jiffies) =>
                  Times(f.id, expired) = IF send_flow_exp THEN 1 ELSE 0

\* C9: the sweep removes a flow if and only if one of its expiries holds at
\* sweep time; a permanent or unexpired flow is never removed.
C9_SweepRemovesIffExpired ==
    chlast.op = "timeout" =>
        /\ \A f \in chlast.removed : ExpiryHolds(f, jiffies)
        /\ \A f \in Installed(hash2, linear) : ~ExpiryHolds(f, jiffies)

\* C10: the chain holds at most one flow per fully specified key, counting
\* both sub-tables of the double-hash table and the linear table, and a
\* successful insert leaves the inserted flow as the only one with its key.
C10_OneFlowPerExactKey ==
    /\ \A f, g \in Installed(hash2, linear) :
          (f.key.wildcards = 0 /\ KeysEqual(f.key, g.key)) => f = g
    /\ (chlast.op = "add" /\ chlast.error = 0
        /\ chlast.flow.key.wildcards = 0) =>
          {g \in Installed(hash2, linear) : KeysEqual(g.key, chlast.flow.key)}
              = {chlast.flow}

-----------------------------------------------------------------------------
(* FLOW_MOD against a full chain *)

\* The packet a retrieve of id would hand out of the cache bufs.
HeldBy(bufs, id) ==
    LET p == bufs[id % N_PKT_BUFFERS]
    IN  IF p.cookie = id \div N_PKT_BUFFERS THEN p.buffer ELSE NULL

\* C11: when every table refuses the flow, the ADD fails with the table-full
\* error, no table and no flow count changes, the flow is in no table, and
\* the buffer the message names is discarded (never retrieved, never run).
C11_TableFullStep ==
    (/\ n_alloc' = n_alloc + 1
     /\ chlast'.op = "add"
     /\ chlast'.flow # NoFlow
     /\ table_hash2_insert(hash2, chlast'.flow).retval = 0
     /\ table_linear_insert(linear, chlast'.flow).retval = 0)
    => /\ chlast'.error = -ENOBUFS
       /\ hash2' = hash2
       /\ linear' = linear
       /\ chlast'.flow \notin Installed(hash2', linear')
       /\ HeldBy(buffers', chlast'.buffer_id) = NULL
       /\ discarded' =
             discarded \cup ({HeldBy(buffers, chlast'.buffer_id)} \ {NULL})
       /\ out' = out
       /\ sent' = sent
-----------------------------------------------------------------------------
(* Rules of several priorities: classification and DELETE *)

\* C12: classify(p) returns a flow only when no installed flow of higher
\* priority (the priority the install path stored) matches p.
C12_HigherPriorityWins ==
    (chlast.op = "lookup" /\ chlast.flow # NoFlow) =>
        \A f1 \in Installed(hash2, linear) :
            f1.priority > chlast.flow.priority
                => ~flow_matches_1wild(chlast.key, f1.key)

\* C13: DELETE_STRICT removes only flows whose wildcard mask and priority
\* both equal those of the request, so a rule with the same key and another
\* priority stays installed.
C13_StrictDeleteByPriority ==
    (chlast.op = "delete" /\ chlast.strict) =>
        \A f \in chlast.removed :
            /\ f.key.wildcards = chlast.key.wildcards
            /\ f.priority = chlast.priority

\* The flows installed before the last DELETE.
BeforeDelete == Installed(hash2, linear) \cup chlast.removed

-----------------------------------------------------------------------------
(* MODIFY *)

\* g is f with at most another action list, and with f's own list when the
\* allocation for f failed.
SameButActions(f, g, nomem) ==
    IF f = NoFlow THEN g = NoFlow
    ELSE /\ g # NoFlow
         /\ [g EXCEPT !.actions = f.actions] = f
         /\ f.id \in nomem => g.actions = f.actions

\* C15: MODIFY changes only action lists: every flow keeps its place, key,
\* wildcards, priority, timeouts and timestamps, the flow counts and the
\* clock are unchanged, and a flow whose new list could not be allocated
\* keeps the list it had.
C15_ModifyStep ==
    chlast'.op = "modify" =>
        /\ \A t \in {1, 2} :
              /\ hash2'[t].n_flows = hash2[t].n_flows
              /\ \A b \in Buckets :
                    SameButActions(hash2[t].buckets[b], hash2'[t].buckets[b],
                                   chlast'.nomem)
        /\ Len(linear') = Len(linear)
        /\ \A i \in DOMAIN linear :
              SameButActions(linear[i], linear'[i], chlast'.nomem)
        /\ jiffies' = jiffies
        /\ expired' = expired
PacketKeys == UNION {flow_extract(impl, pkt, pkt.in_port) : pkt \in Packets}

\* The installed copy of the flow the last FLOW_MOD ADD allocated.
AddedFlows == {f \in Installed(hash2, linear) : f.id = chlast.flow.id}

\* C16: after a FLOW_MOD ADD that names a buffer and whose flow the chain
\* accepted, the flow is installed and every frame whose key it matches is
\* classified to a flow, whether or not the buffer could be retrieved; until
\* the next save the named id retrieves nothing; and when the buffer was retrieved
\* the flow has counted one packet of the frame's length and the action
\* list was run once.
C16_NamedBufferAdd ==
    (/\ chlast.op = "add"
     /\ chlast.buffer_id # UINT32_MAX
     /\ chlast.flow # NoFlow
     /\ chlast.error \in {0, -ESRCH})
    => /\ AddedFlows # {}
       /\ \A key \in PacketKeys :
            flow_matches_1wild(key, chlast.flow.key)
            => chain_lookup(hash2, linear, key).flow # NoFlow
       /\ last.op = "retrieve" => HeldBy(buffers, chlast.buffer_id) = NULL
       /\ chlast.error = -ESRCH
          => /\ \A f \in AddedFlows : f.packet_count = 0 /\ f.byte_count = 0
             /\ sent = <<>>
       /\ chlast.error = 0
          => /\ \A f \in AddedFlows :
                   /\ f.packet_count = 1
                   /\ \A p \in out : f.byte_count = sizes[p]
             /\ out # {}
             /\ Len(sent) = 1
             /\ sent[1].port = chlast.flow.actions[1].port

\* The frame the last do_output call handed on, and the states of the cache
\* before and after a step.
LastSentLen == heap'[sent'[Len(sent')].blk].len
CacheUnchanged ==
    /\ buffers' = buffers /\ buffer_idx' = buffer_idx /\ ids' = ids
    /\ out' = out /\ discarded' = discarded
NothingSent == sent' = sent /\ packet_ins' = packet_ins
PacketOutBuffered(id) ==
    /\ chlast'.error = 0
    /\ HeldBy(buffers', id) = NULL
    /\ out' = out \cup {HeldBy(buffers, id)}
    /\ Len(sent') = Len(sent) + 1
    /\ LastSentLen = sizes[HeldBy(buffers, id)]
    /\ sent'[Len(sent')].port = chlast'.actions[1].port
PacketOutBadId ==
    /\ chlast'.error = -ESRCH
    /\ NothingSent
    /\ CacheUnchanged

\* C17 as stated: a PACKET_OUT with the all-ones id sends the inline bytes
\* and leaves the buffer cache unchanged; with another id that names a held
\* buffer the buffer is consumed and the actions run on it; with an id that
\* names no held buffer -ESRCH is returned and nothing is sent.
C17_PacketOutStepAsStated ==
    recv_packet_out =>
        LET id == chlast'.buffer_id
        IN  /\ id = UINT32_MAX
               => /\ chlast'.error = 0
                  /\ Len(sent') = Len(sent) + 1
                  /\ LastSentLen = chlast'.len
                  /\ CacheUnchanged
            /\ (id # UINT32_MAX /\ HeldBy(buffers, id) # NULL)
               => PacketOutBuffered(id)
            /\ (id # UINT32_MAX /\ HeldBy(buffers, id) = NULL)
               => PacketOutBadId
C17_PacketOutStep ==
    recv_packet_out =>
        LET id == chlast'.buffer_id
        IN  /\ id = UINT32_MAX
               => /\ chlast'.error = 0
                  /\ Len(sent') = Len(sent) + 1
                  /\ LastSentLen = chlast'.len
                  /\ out' = out /\ discarded' = discarded
                  /\ IF chlast'.actions[1].port = OFPP_CONTROLLER
                     THEN /\ Len(ids') = Len(ids) + 1
                          /\ Len(packet_ins') = Len(packet_ins) + 1
                     ELSE CacheUnchanged /\ packet_ins' = packet_ins
            /\ (id # UINT32_MAX /\ HeldBy(buffers, id) # NULL)
               => PacketOutBuffered(id)
            /\ (id # UINT32_MAX /\ HeldBy(buffers, id) = NULL)
               => PacketOutBadId
MatchesNone ==
    \A f \in Installed(hash2, linear) : ~flow_matches_1wild(chlast'.key, f.key)
LastPacketIn == packet_ins'[Len(packet_ins')]
MissReported ==
    /\ Len(packet_ins') = Len(packet_ins) + 1
    /\ LastPacketIn.reason = OFPR_NO_MATCH
    /\ LastPacketIn.in_port = chlast'.key.in_port
    /\ LastPacketIn.total_len = chlast'.len
    /\ hash2' = hash2 /\ linear' = linear
    /\ sent' = sent
    /\ LastPacketIn.buffer_id # UINT32_MAX
       => /\ HeldBy(buffers', LastPacketIn.buffer_id) # NULL
          /\ sizes'[HeldBy(buffers', LastPacketIn.buffer_id)] = chlast'.len

\* C18 as stated: a frame that matches no installed flow yields one PACKET_IN
\* with reason NO_MATCH, the ingress port, the frame's length as total_len
\* and at most miss_send_len bytes of payload, whether or not the frame was
\* saved; no flow changes; a buffer that was issued holds the whole frame.
C18_MissStepAsStated ==
    (fwd_port_input /\ MatchesNone)
    => MissReported /\ LastPacketIn.length <= miss_send_len
C18_MissStep ==
    (fwd_port_input /\ MatchesNone)
    => /\ MissReported
       /\ LastPacketIn.length <= LastPacketIn.total_len
       /\ LastPacketIn.buffer_id # UINT32_MAX
          => LastPacketIn.length = Min(chlast'.len, miss_send_len)
       /\ (LastPacketIn.buffer_id = UINT32_MAX /\ impl = "switch")
          => LastPacketIn.length = chlast'.len
Counted(f) ==
    [f EXCEPT !.packet_count = @ + 1, !.byte_count = @ + chlast'.len,
              !.used = jiffies]
HitOn(f) ==
    /\ Installed(hash2', linear') =
          (Installed(hash2, linear) \ {f}) \cup {Counted(f)}
    /\ Len(sent') = Len(sent) + Len(f.actions)
    /\ sent'[Len(sent')].port = f.actions[Len(f.actions)].port
    /\ LastSentLen = chlast'.len
    /\ packet_ins' = packet_ins
    /\ CacheUnchanged

\* C19: when the frame of a fwd_port_input step matches an installed flow,
\* one matching flow counts the packet and its bytes and is stamped with the
\* time, its actions run on the frame, no PACKET_IN is sent, nothing is
\* saved, and every other flow is unchanged.
C19_HitStep ==
    (fwd_port_input /\ ~MatchesNone)
    => \E f \in Installed(hash2, linear) :
          flow_matches_1wild(chlast'.key, f.key) /\ HitOn(f)
C19_HitCountsAndForwards == [][C19_HitStep]_vars

\* C20: a message of a foreign version is rejected and no handler is
\* invoked, unless its type is HELLO, ERROR, ECHO_REQUEST, ECHO_REPLY or
\* VENDOR; a message of one of these five types is not rejected for its
\* version.
C20_VersionCheck ==
    ctl.pc = "done"
    => /\ (ctl.oh.version # OFP_VERSION /\ ctl.oh.type \notin AnyVersionTypes)
          => (ctl.handler = "none" /\ ctl.why = "version" /\ ctl.error # 0)
       /\ ctl.oh.type \in AnyVersionTypes => ctl.why # "version"

\* The type of the dispatched message has no handler in the build's table;
\* the message is otherwise in order.
NoHandler ==
    ctl.oh.type \notin (IF impl = "switch" THEN HandledBySwitch
                        ELSE HandledByDatapath)
InOrder ==
    /\ ctl.oh.version = OFP_VERSION \/ ctl.oh.type \in AnyVersionTypes
    /\ ~Overrun(ctl.oh)

\* C21: a message whose type has no handler is answered with exactly one
\* ERROR(BAD_REQUEST, BAD_TYPE) that echoes the message; no handler runs and
\* the tables, the buffer cache and the configuration are as before.
C21_UnknownTypeAnswered ==
    (ctl.pc = "done" /\ NoHandler /\ InOrder)
    => /\ ctl.handler = "none"
       /\ ctl.errors = <<dp_send_error_msg(OFPET_BAD_REQUEST, OFPBRC_BAD_TYPE,
                                           ctl.oh)>>
       /\ Installed(hash2, linear) = {}
       /\ ids = <<>>
       /\ miss_send_len = OFP_DEFAULT_MISS_SEND_LEN

\* C22: a handler is invoked only for a message whose header length field is
\* not larger than the bytes received and not smaller than the minimum size
\* of its type, so header length minus fixed body size is never negative.
C22_LengthFieldEnforced ==
    (ctl.pc = "done" /\ ctl.handler # "none")
    => /\ ~Overrun(ctl.oh)
       /\ ctl.oh.oh_length >= min_size(ctl.oh.type)
       /\ ctl.derived >= 0

\* C23: every control message the dispatch rejects (wrong version, unknown
\* type, bad length) is answered with an ERROR message on its connection.
C23_RejectionAnswered ==
    (ctl.pc = "done" /\ ctl.error # 0) => ctl.errors # <<>>

\* C24: no action list a control message can carry makes the running datapath
\* abort or fail an assertion.
C24_NeverAborts == pc # "aborted"

\* The slot the next save_buffer looks at.
NextSlot == (buffer_idx + 1) % N_PKT_BUFFERS

\* C25: a save into a slot whose occupant is younger than OVERWRITE_SECS
\* returns the all-ones id and leaves the slot as it is, the occupant still
\* retrievable with the id it was issued; the occupant of a slot is
\* overwritten and freed by a save exactly if OVERWRITE_SECS have passed since
\* it was installed.
C25_SaveStep ==
    save_buffer =>
        LET p == buffers[NextSlot]
            installed == p.timeout - OVERWRITE_SECS
            young == now - installed < OVERWRITE_SECS
        IN  p.buffer # NULL =>
              /\ young => /\ last'.id = UINT32_MAX
                          /\ buffers' = buffers
                          /\ last'.freed = NULL
                          /\ LET own == ids[p.buffer]
                             IN  /\ own # UINT32_MAX
                                 /\ buffers'[own % N_PKT_BUFFERS].cookie
                                       = own \div N_PKT_BUFFERS
                                 /\ buffers'[own % N_PKT_BUFFERS].buffer
                                       = p.buffer
              /\ ~young => /\ last'.id # UINT32_MAX
                           /\ last'.freed = p.buffer
                           /\ buffers'[NextSlot].buffer = last'.ret
              /\ (buffers'[NextSlot].buffer # p.buffer) <=> ~young

C25_YoungOccupantKept == [][C25_SaveStep]_vars

\* A save has been refused for a young occupant and this save has overwritten
\* and freed an old one.
C25_Witness ==
    /\ last.op = "save"
    /\ last.freed # NULL
    /\ \E i \in DOMAIN ids : ids[i] = UINT32_MAX

\* The packets the workers have in hand or the cache holds.
Held == {buffers[s].buffer : s \in Slots} \ {NULL}
InHand == {workers[w].skb : w \in {"ctl"}} \cup {workers["rx"].old_skb}
Freed == {frees[i].skb : i \in DOMAIN frees}

\* C26: under every interleaving of the receive worker's save with the
\* control worker's retrieve, discard and discard-all, the ring index and
\* the slots are touched only with buffer_lock held, no packet is freed with
\* the lock held, and every saved packet is in the cache, handed to exactly
\* one retrieve, or freed exactly once, never two of these.
C26_CacheSerialised ==
    /\ ~unlocked
    /\ \A i \in DOMAIN frees : ~frees[i].locked
    /\ twice = {}
    /\ \A i, j \in DOMAIN frees : frees[i].skb = frees[j].skb => i = j
    /\ Freed \cap out = {}
    /\ Held \cap (Freed \cup out) = {}
    /\ \A k \in DOMAIN ids :
          ids[k] # UINT32_MAX
          => k \in Held \cup Freed \cup out \cup (InHand \ {NULL})

\* Both workers have been in the cache: a save was refused, a packet was
\* handed to retrieve and two packets were freed.
C26_Witness ==
    /\ out # {}
    /\ Cardinality(Freed) >= 2
    /\ \E k \in DOMAIN ids : ids[k] = UINT32_MAX

\* C27: no id a successful save issues is the all-ones id: every slot's
\* cookie stays within 0 .. 2^PKT_COOKIE_BITS - 2, every issued id is
\* index | (cookie << PKT_BUFFER_BITS) of the slot that took the packet, and a
\* packet for which save returned all ones is not in the cache and never was.
C27_AllOnesNeverIssued ==
    /\ \A s \in Slots : buffers[s].cookie \in 0 .. Pow2(PKT_COOKIE_BITS) - 2
    /\ \A k \in DOMAIN ids :
          IF ids[k] = UINT32_MAX
          THEN k \notin Held \cup out \cup discarded
          ELSE /\ ids[k] % N_PKT_BUFFERS \in Slots
               /\ ids[k] \div N_PKT_BUFFERS \in 0 .. Pow2(PKT_COOKIE_BITS) - 2
               /\ k \in Held =>
                     buffers[ids[k] % N_PKT_BUFFERS] =
                        [buffers[ids[k] % N_PKT_BUFFERS] EXCEPT
                            !.buffer = k,
                            !.cookie = ids[k] \div N_PKT_BUFFERS]
    /\ (last.op = "save" /\ last.id # UINT32_MAX)
       => last.id = buffer_idx + buffers[buffer_idx].cookie * N_PKT_BUFFERS

\* The cookie of a slot has wrapped to 0 past its last value, and one save
\* was refused.
C27_Witness ==
    /\ last.op = "save" /\ last.id = 0
    /\ \E k \in DOMAIN ids : ids[k] = Pow2(PKT_COOKIE_BITS) - 2
    /\ \E k \in DOMAIN ids : ids[k] = UINT32_MAX

\* C28: every installed flow has at most MAX_ACTIONS actions; a FLOW_MOD with
\* more is rejected, installs nothing and discards the buffer it names.
C28_AtMostMaxActions ==
    \A f \in Installed(hash2, linear) : Len(f.actions) <= MAX_ACTIONS

\* The ports a flood of a frame from rx_port must reach.
FloodTargets ==
    {port_list[i].port_no : i \in {j \in DOMAIN port_list :
        port_list[j].port_no # rx_port /\ ~port_list[j].no_flood}}

\* C29: an output to FLOOD sends exactly one copy of the frame to every port
\* of the port list that is not the ingress port and lacks NO_FLOOD, and to
\* no other; the frame is cloned one time less than there are such ports and
\* dropped when there is none.
C29_FloodReachesEachPortOnce ==
    pc = "done" =>
        /\ {sent[i].port : i \in DOMAIN sent} = FloodTargets
        /\ Len(sent) = Cardinality(FloodTargets)
        /\ \A i, j \in DOMAIN sent : sent[i].blk = sent[j].blk => i = j
        /\ \A i \in DOMAIN sent : heap[sent[i].blk] = input
        /\ clones = IF FloodTargets = {} THEN 0
                    ELSE Cardinality(FloodTargets) - 1

\* A flood has reached two ports, with one clone, and skipped the ingress
\* port and another port that has NO_FLOOD.
C29_Witness ==
    /\ pc = "done"
    /\ \E i \in DOMAIN port_list :
          port_list[i].no_flood /\ port_list[i].port_no # rx_port
    /\ \E i \in DOMAIN port_list : port_list[i].port_no = rx_port
    /\ Len(sent) = 2
    /\ clones = 1

\* C30: in reliable mode the wait after the k-th consecutive failed
\* vconn_open of a reconnect is min(2^(k-1), 60) seconds, so the waits never
\* decrease and never exceed 60, every reconnect starts again at 1, and
\* reconnect returns only with the connection open; in unreliable mode the
\* first failure is fatal and nothing is waited for.
C30_BackoffDoublesTo60 ==
    /\ \A k \in DOMAIN rc.waits :
          /\ rc.waits[k] = Min(Pow2(k - 1), 60)
          /\ rc.waits[k] <= 60
          /\ k > 1 => rc.waits[k] >= rc.waits[k - 1]
    /\ rc.pc = "open" => rc.backoff = Min(Pow2(Len(rc.waits)), 60)
    /\ (rc.pc = "none" /\ rc.calls > 0) => halves[rc.this].vconn = "open"
    /\ reliable => rc.pc # "fatal"
    /\ ~reliable => rc.waits = <<>>

\* A later reconnect, after one that returned, has waited 1, 2, ... and 60
\* seconds twice.
C30_Witness ==
    /\ rc.calls >= 2
    /\ Len(rc.waits) = MaxFailures
    /\ rc.waits[1] = 1
    /\ rc.waits[MaxFailures] = 60

\* The flows a FLOW_MOD ADD can hand to table_hash_insert next, and the keys
\* a lookup can ask for.
NextFlows == {FilledFlow(impl, ofm, u) : ofm \in FlowMods, u \in Uninit}
LookupKeys == PacketKeys \cup {f.key : f \in NextFlows}
Occupied(th) == {b \in Buckets : th.buckets[b] # NoFlow}

\* What table_hash_insert must do with flow f on table t.
InsertContract(t, f) ==
    LET th == hash2[t]
        r == table_hash_insert(th, t, f)
        b == find_bucket(t, f.key)
        old == th.buckets[b]
    IN  /\ r.retval \in {0, 1}
        /\ \A c \in Buckets \ {b} : r.th.buckets[c] = th.buckets[c]
        /\ f.key.wildcards # 0 => (r.retval = 0 /\ r.th = th)
        /\ (f.key.wildcards = 0 /\ old = NoFlow)
           => (r.retval = 1 /\ r.th.buckets[b] = f
               /\ r.th.n_flows = th.n_flows + 1)
        /\ (f.key.wildcards = 0 /\ old # NoFlow /\ old.key = f.key)
           => (r.retval = 1 /\ r.th.buckets[b] = f
               /\ r.th.n_flows = th.n_flows)
        /\ (f.key.wildcards = 0 /\ old # NoFlow /\ old.key # f.key)
           => (r.retval = 0 /\ r.th = th)

\* C31: over any sequence of inserts, deletes and sweeps each hash table
\* holds only flows without wildcards, each in the bucket of its key, with
\* n_flows the number of occupied buckets; insert installs into an empty
\* bucket, replaces an occupant of the same key, refuses a different key and
\* a wildcarded flow; lookup answers from the key's own bucket only.
C31_HashTableContract ==
    \A t \in {1, 2} :
        LET th == hash2[t]
        IN  /\ th.n_flows = Cardinality(Occupied(th))
            /\ th.n_flows <= bucket_mask + 1
            /\ \A b \in Occupied(th) :
                  /\ th.buckets[b].key.wildcards = 0
                  /\ find_bucket(t, th.buckets[b].key) = b
            /\ \A f \in NextFlows : InsertContract(t, f)
            /\ \A key \in LookupKeys :
                  LET own == th.buckets[find_bucket(t, key)]
                  IN  table_hash_lookup(th, t, key) =
                         IF own # NoFlow /\ own.key = key THEN own ELSE NoFlow

\* A table holds a flow for which the next insert has a replacement, a
\* colliding flow of another key and a wildcarded flow, after a delete or a
\* sweep has emptied a bucket.
C31_Witness ==
    /\ chlast.op \in {"delete", "sweep", "timeout"}
    /\ chlast.removed # {}
    /\ \E t \in {1, 2} : \E b \in Occupied(hash2[t]) :
          /\ \E f \in NextFlows : f.key = hash2[t].buckets[b].key
          /\ \E f \in NextFlows :
                /\ f.key.wildcards = 0
                /\ f.key # hash2[t].buckets[b].key
                /\ find_bucket(t, f.key) = b
          /\ \E f \in NextFlows : f.key.wildcards # 0

\* What the build's incremental update makes of the stored UDP checksum.
UdpUpdate ==
    IF impl = "datapath" THEN update_csum(csum, field, new)
    ELSE IF width = 16 THEN recalc_csum16(csum, field.lo, new.lo)
    ELSE recalc_csum32(csum, field, new)

\* C32: a rewrite of an address or a port of a UDP/IPv4 packet leaves a zero
\* UDP checksum zero and writes 0xFFFF when the update of a nonzero checksum
\* evaluates to zero.
C32_UdpStep ==
    (modify_nh_udp \/ modify_th_udp)
    => /\ csum = 0 => csum' = 0
       /\ (csum # 0 /\ UdpUpdate = 0) => csum' = UINT16_MAX

C32_UdpZeroKept == [][C32_UdpStep]_vars

\* C33: SET_VLAN_VID with a VID other than none rewrites the VID of a tagged
\* frame in place, priority and CFI bits kept and no tag added, and gives an
\* untagged frame, one just stripped included, exactly one tag, placed after
\* the source address, the rest of the frame untouched.
C33_SetVidStep ==
    set_vlan_vid
    => LET vid == Head(vlan_todo).vlan_vid
       IN  /\ payload_ok' = payload_ok
           /\ veth # <<>>
              => veth' = <<veth[1] - BitAnd(veth[1], VLAN_VID) + vid>>
                         \o Tail(veth)
           /\ veth = <<>>
              => Len(veth') = 1 /\ BitAnd(veth'[1], VLAN_VID) = vid

C33_VidRewrittenOrOneTagInserted == [][C33_SetVidStep]_vars

\* The max_len of the dp_output_control call behind the PACKET_IN a step
\* appends: 0 from dp_output_port, miss_send_len from fwd_port_input.
CallMaxLen == IF LastPacketIn.reason = OFPR_ACTION THEN 0 ELSE miss_send_len

\* C34: dp_output_control with max_len = 0, the value dp_output_port passes,
\* sends the whole packet; with max_len > 0 it sends the first max_len bytes
\* of a packet it could save and all of a packet it could not.
C34_OutputControlStep ==
    (/\ impl = "switch"
     /\ recv_packet_out \/ fwd_port_input
     /\ Len(packet_ins') = Len(packet_ins) + 1)
    => /\ CallMaxLen = 0 => LastPacketIn.length = LastPacketIn.total_len
       /\ (CallMaxLen > 0 /\ LastPacketIn.buffer_id # UINT32_MAX)
          => LastPacketIn.length = Min(LastPacketIn.total_len, CallMaxLen)
       /\ (CallMaxLen > 0 /\ LastPacketIn.buffer_id = UINT32_MAX)
          => LastPacketIn.length = LastPacketIn.total_len

C34_ZeroMaxLenSendsAll == [][C34_OutputControlStep]_vars

\* The events of one kind set, for one port or remote, in the order they
\* happened.
EventsOf(kinds, who) ==
    SelectSeq(events, LAMBDA e : e.kind \in kinds /\ e.who = who)
InPass(es, pass) == SelectSeq(es, LAMBDA e : e.pass = pass)
Taken(r) ==
    IF loop.pc = "remotes" /\ loop.at = r /\ loop.buffer # NoBuffer
    THEN <<loop.buffer.seq>> ELSE <<>>
Seqs(es) == [k \in DOMAIN es |-> es[k].seq]
Queued(r) == [k \in DOMAIN rxq[r] |-> rxq[r][k].seq]

\* C35: a pass of the main loop takes at most 50 messages from each
\* connection and at most one frame from each port; the messages of a
\* connection are taken in the order they arrived, each handled before the
\* next is taken, and those beyond the bound are still queued afterwards.
C35_BoundedOrderedPasses ==
    /\ \A r \in Remotes, pass \in 1 .. MaxPasses :
          Len(InPass(EventsOf({"recv"}, r), pass)) <= MaxPerPass
    /\ \A p \in LoopPorts, pass \in 1 .. MaxPasses :
          Len(InPass(EventsOf({"frame"}, p), pass)) <= 1
    /\ \A r \in Remotes :
          /\ Seqs(EventsOf({"recv"}, r)) \o Queued(r)
                = [k \in 1 .. arrived[r] |-> k]
          /\ Seqs(EventsOf({"input", "short"}, r)) \o Taken(r)
                = Seqs(EventsOf({"recv"}, r))
    /\ \A k \in DOMAIN events :
          events[k].kind = "recv"
          => IF k = Len(events) THEN Taken(events[k].who) = <<events[k].seq>>
             ELSE /\ events[k + 1].kind \in {"input", "short"}
                  /\ events[k + 1].who = events[k].who
                  /\ events[k + 1].seq = events[k].seq

\* The first pass stopped at the bound with a message left, which the second
\* pass dispatched after one that arrived in between stayed behind it; a port
\* with two frames waiting gave one to each pass.
C35_Witness ==
    /\ loop.pass = 2
    /\ Len(InPass(EventsOf({"input"}, 1), 1)) = MaxPerPass
    /\ \E k \in DOMAIN events :
          /\ events[k] = [pass |-> 2, kind |-> "input", who |-> 1,
                          seq |-> MaxPerPass + 1]
    /\ arrived[1] = MaxPerPass + 2
    /\ Len(InPass(EventsOf({"frame"}, 1), 1)) = 1
    /\ Len(InPass(EventsOf({"frame"}, 1), 2)) = 1

\* Thread t is between reading a flow pointer and giving it up.
Holds(t) ==
    IF thr[t].pc \in {"off", "idle", "read", "done"} THEN "NULL"
    ELSE thr[t].flow

FramesOf(f) ==
    {pkt \in [in_port : {1, 2}, nw_src : {0, 1}] :
        pkt.in_port = f.key.in_port /\ pkt.nw_src = f.key.nw_src}
ExactFlows ==
    {f \in {hash2[t].buckets[b] : t \in {1, 2}, b \in Buckets}
           \cup {linear[i] : i \in DOMAIN linear} :
        f # NoFlow /\ f.key.wildcards = 0}

\* C37: an installed flow with no wildcards is what chain_lookup returns for
\* a frame whose extracted fields equal the flow's: the key of the flow and
\* the key of the frame hash alike and compare equal, masks included.
C37_InstallLookupRoundTrip ==
    \A f \in ExactFlows : \A pkt \in FramesOf(f) :
        \A key \in flow_extract(impl, pkt, pkt.in_port) :
            /\ KeyBytes(key) = KeyBytes(f.key)
            /\ chain_lookup(hash2, linear, key).flow # NoFlow
            /\ chain_lookup(hash2, linear, key).flow.key = f.key

\* C38: a FLOW_MOD MODIFY or MODIFY_STRICT that passes the loop validation
\* returns 0 when it names no buffer or the buffer it names is retrieved, and
\* a nonzero error only when the named buffer cannot be retrieved.
C38_ModifyStep ==
    (mod_flow /\ impl = "datapath")
    => LET named == chlast'.buffer_id # UINT32_MAX
           missing == named /\ HeldBy(buffers, chlast'.buffer_id) = NULL
       IN  /\ ~missing => chlast'.error = 0
           /\ missing => chlast'.error # 0

C38_ModifyReturnsZero == [][C38_ModifyStep]_vars

\* Thread t has set the deleted flag of a flow and has not yet unlinked it
\* and scheduled its free.
Removing(t) ==
    IF thr[t].pc \in {"assign", "free"} THEN thr[t].flow ELSE "NULL"
Finished == \A t \in HashThreads : thr[t].pc \in {"off", "done"}

\* C39: with two inserts, the delete and the sweep interleaved on one bucket,
\* a removed flow is scheduled for deferred free once and only once, the
\* bucket does not point at a flow scheduled for free, an insert that
\* succeeded is in the bucket until a remover takes it, and n_flows counts
\* the non-empty bucket when all have finished.
C39_BucketRaces ==
    /\ \A f \in HashFlowNames :
          /\ scheduled[f] <= 1
          /\ scheduled[f] = 1 => f \in flow_deleted /\ bucket_flow # f
          /\ (f \in flow_deleted /\ \A t \in HashThreads : Removing(t) # f)
             => scheduled[f] = 1
    /\ \A t \in Inserters :
          thr[t].retval = 1
          => bucket_flow = InsertedBy(t) \/ InsertedBy(t) \in flow_deleted
    /\ Finished => n_flows = IF bucket_flow = "NULL" THEN 0 ELSE 1

\* All four have finished: ins1 replaced A by B, the delete and the sweep
\* both went for B and one of them removed it, ins2 put C into the emptied
\* bucket.
C39_Witness ==
    /\ Finished
    /\ scheduled["A"] = 1 /\ scheduled["B"] = 1
    /\ thr["del"].flow = "B" /\ thr["sweep"].flow = "B"
    /\ thr["del"].count + thr["sweep"].count = 1
    /\ thr["ins2"].retval = 1 /\ bucket_flow = "C" /\ n_flows = 1

\* The messages received on half i that are neither accepted by the peer's
\* send nor discarded by a reconnect of the half.
Undelivered(i) ==
    (1 .. relayed.recvd[i])
        \ (Range(relayed.forwarded[i]) \cup relayed.dropped[i])

\* Each direction's undelivered messages are the one in its slot, if any;
\* the messages the peer's send accepted are in the order received, each
\* once, and none of them was also discarded.
RelayOneSlot ==
    \A i \in HalfIds :
        LET f == relayed.forwarded[i] IN
        /\ Undelivered(i) = {rxbuf[i]} \ {NoMsg}
        /\ \A a, b \in DOMAIN f : a < b => f[a] < f[b]
        /\ Range(f) \cap relayed.dropped[i] = {}

\* One step of the loop: nothing is received into a full slot; a full slot
\* changes only by being emptied, when the peer's send accepts its message
\* or the half is reconnected; a send that neither succeeds nor fails keeps
\* it; a failed vconn_recv or vconn_send reconnects the failing side with its
\* slot emptied (in unreliable mode reconnect ends the program), and nothing
\* else reconnects.
RelayStep ==
    /\ \A i \in HalfIds :
          /\ relayed'.recvd[i] # relayed.recvd[i] =>
                /\ rxbuf[i] = NoMsg
                /\ rxbuf'[i] = relayed.recvd[i] + 1
          /\ (rxbuf[i] # NoMsg /\ rxbuf'[i] # rxbuf[i]) =>
                /\ rxbuf'[i] = NoMsg
                /\ \/ relayed'.forwarded[i] =
                          Append(relayed.forwarded[i], rxbuf[i])
                   \/ /\ relayed'.conns[i] = relayed.conns[i] + 1
                      /\ rxbuf[i] \in relayed'.dropped[i]
          /\ relayed'.forwarded[i] # relayed.forwarded[i] =>
                /\ rxbuf[i] # NoMsg
                /\ rxbuf'[i] = NoMsg
                /\ relayed'.forwarded[i] =
                       Append(relayed.forwarded[i], rxbuf[i])
          /\ relayed'.conns[i] # relayed.conns[i] =>
                relayed'.errors # relayed.errors
    /\ (/\ relay.pc = "send"
        /\ relayed'.errors = relayed.errors
        /\ relayed'.forwarded = relayed.forwarded) => rxbuf' = rxbuf
    /\ relayed'.errors # relayed.errors =>
          LET side == relayed'.last.side IN
          IF reliable
          THEN /\ relayed'.conns[side] = relayed.conns[side] + 1
               /\ rxbuf'[side] = NoMsg
               /\ relay'.pc = "poll"
          ELSE relay'.pc = "fatal"

\* C40: in the secchan relay each direction holds at most one undelivered
\* message: nothing is received on a side while its previous message is
\* pending, a received message is accepted by the peer's send at most once
\* (the slot is cleared exactly when send succeeds and kept when send would
\* block), the messages of a direction are forwarded in the order received,
\* and an error other than would-block reconnects the failing side with its
\* own pending message discarded.
C40_RelayOneSlotInOrder == []RelayOneSlot /\ [][RelayStep]_vars

\* In reliable mode one direction has forwarded two messages in order while
\* the other has lost a pending message to a reconnect and holds its next
\* message after a send that would block.
C40_Witness ==
    /\ reliable
    /\ \E i \in HalfIds :
          /\ Len(relayed.forwarded[i]) >= 2
          /\ relayed.dropped[Other(i)] # {}
          /\ relayed.last.op = "send"
          /\ relayed.last.retval = "EAGAIN"
          /\ relayed.last.msg # NoMsg
          /\ rxbuf[Other(i)] = relayed.last.msg

=============================================================================
